---- MODULE Spec2Model ----
(***************************************************************************)
(* Model of the comment-generation pipeline of kilocode-ml-service:        *)
(* the /ml/generate-comment endpoint (app.py), the platform router and     *)
(* strategies (comment_engine.py) and the generation engine with its       *)
(* quality validator and fallback synthesizer (gemini_generator.py).       *)
(*                                                                         *)
(* Text.  A Python string is modelled as a sequence of tokens; the string  *)
(* is the concatenation of its tokens.  A token [w, cap, n] is a run of n  *)
(* characters: w names its lower-cased spelling, cap says whether its      *)
(* first letter is upper case.  " " is one whitespace character, ".", "!"  *)
(* and "?" are punctuation, every other token is a run of word characters  *)
(* (a mention or a link carries its own marker).                           *)
(***************************************************************************)
EXTENDS Integers, Sequences, FiniteSets, TLC

----------------------------------------------------------------------------
(* Tokens and character-level helpers.                                     *)

Tok(w, n) == [w |-> w, cap |-> FALSE, n |-> n]
Cap(w, n) == [w |-> w, cap |-> TRUE, n |-> n]
SP == Tok(" ", 1)
DOT == Tok(".", 1)
QM == Tok("?", 1)
BANG == Tok("!", 1)

IsSpace(t) == t.w = " "
IsPunct(t) == t.w \in {".", "!", "?"}
IsMention(t) == t.w = "@bob"
IsLink(t) == t.w = "http://t.co/x"
IsSym(t) == t.w \in {",", ":", "'", "-", "...", "#"}
\* a run of letters
IsWord(t) == ~IsSpace(t) /\ ~IsPunct(t) /\ ~IsMention(t) /\ ~IsLink(t) /\ ~IsSym(t)

RECURSIVE LenFrom(_, _)
LenFrom(s, i) == IF i > Len(s) THEN 0 ELSE s[i].n + LenFrom(s, i + 1)

\* len(s)
CharLen(s) == LenFrom(s, 1)

\* s.lower()
Lower(s) == [i \in 1..Len(s) |-> [s[i] EXCEPT !.cap = FALSE]]

RECURSIVE LStrip(_)
LStrip(s) == IF s # <<>> /\ IsSpace(Head(s)) THEN LStrip(Tail(s)) ELSE s

RECURSIVE RStrip(_)
RStrip(s) ==
    IF s # <<>> /\ IsSpace(s[Len(s)]) THEN RStrip(SubSeq(s, 1, Len(s) - 1)) ELSE s

\* s.strip()
Strip(s) == RStrip(LStrip(s))

RECURSIVE Take(_, _)
\* s[:k]; a token cut in the middle keeps its first characters
Take(s, k) ==
    IF s = <<>> \/ k <= 0 THEN <<>>
    ELSE IF Head(s).n <= k THEN <<Head(s)>> \o Take(Tail(s), k - Head(s).n)
    ELSE <<[Head(s) EXCEPT !.n = k]>>

RECURSIVE Drop(_, _)
\* s[k:]; what is left of a token cut in the middle starts in lower case
Drop(s, k) ==
    IF s = <<>> \/ k <= 0 THEN s
    ELSE IF Head(s).n <= k THEN Drop(Tail(s), k - Head(s).n)
    ELSE <<[Head(s) EXCEPT !.n = @ - k, !.cap = FALSE]>> \o Tail(s)

\* s[a:b]
Slice(s, a, b) == Take(Drop(s, a), b - a)

RECURSIVE Split(_)
\* s.split(): the maximal runs of non-whitespace characters
Split(s) ==
    LET t == LStrip(s)
        RECURSIVE RunLen(_)
        RunLen(u) == IF u = <<>> \/ IsSpace(Head(u)) THEN 0 ELSE 1 + RunLen(Tail(u))
    IN IF t = <<>> THEN <<>>
       ELSE <<SubSeq(t, 1, RunLen(t))>> \o Split(SubSeq(t, RunLen(t) + 1, Len(t)))

RECURSIVE JoinSp(_)
\* " ".join(words)
JoinSp(ws) ==
    IF ws = <<>> THEN <<>>
    ELSE IF Len(ws) = 1 THEN ws[1]
    ELSE ws[1] \o <<SP>> \o JoinSp(Tail(ws))

\* the lower-cased spellings of the tokens of s, in order
Spelling(s) == [i \in 1..Len(s) |-> s[i].w]

\* phrase in s.lower(), for a phrase given by its (lower-case) spellings
Contains(s, phrase) ==
    \E i \in 1..(Len(s) - Len(phrase) + 1) :
        \A j \in 1..Len(phrase) : s[i + j - 1].w = phrase[j]

\* s.title(): the first letter of every run of letters is upper-cased
Title(s) == [i \in 1..Len(s) |-> IF IsWord(s[i]) THEN [s[i] EXCEPT !.cap = TRUE] ELSE s[i]]

\* a word spelled w, and a sequence of such words joined by single spaces
W(w) == Tok(w, Len(w))
CapW(w) == Cap(w, Len(w))
Ws(ws) == [i \in 1..(2 * Len(ws) - 1) |-> IF i % 2 = 1 THEN W(ws[(i + 1) \div 2]) ELSE SP]

\* The substrings of a token's spelling that the code searches for: every
\* spelling contains itself, and the longer spellings of the vocabulary contain
\* the keywords listed here.
Subs(w) ==
    CASE w = "debugging" -> {"debugging", "debug", "bug"}
      [] w = "errors" -> {"errors", "error"}
      [] w = "news" -> {"news", "new"}
      [] w = "refactoring" -> {"refactoring", "refactor"}
      [] w = "testing" -> {"testing", "test"}
      [] w = "kilocode's" -> {"kilocode's", "kilocode"}
      [] OTHER -> {w}

\* kw in s.lower(), for a keyword without whitespace
HasSub(s, kw) == \E i \in 1..Len(s) : kw \in Subs(s[i].w)

\* any(k in s.lower() for k in ...): kws are single words, phrases hold whitespace
AnyIn(s, kws, phrases) ==
    \/ \E kw \in kws : HasSub(s, kw)
    \/ \E p \in phrases : Contains(s, p)

----------------------------------------------------------------------------
(* text_utils.py.                                                          *)

IsNonAscii(t) == t.w = "<cjk>"

RECURSIVE CollapseSpaces(_)
\* re.sub(r'\s+', ' ', text)
CollapseSpaces(s) ==
    IF s = <<>> THEN <<>>
    ELSE IF IsSpace(Head(s)) THEN <<SP>> \o CollapseSpaces(LStrip(s))
    ELSE <<Head(s)>> \o CollapseSpaces(Tail(s))

RECURSIVE CleanTokens(_)
\* links become the placeholder [LINK], non-ASCII characters are removed
CleanTokens(s) ==
    IF s = <<>> THEN <<>>
    ELSE (IF IsLink(Head(s)) THEN <<Tok("[LINK]", 6)>>
          ELSE IF IsNonAscii(Head(s)) THEN <<>>
          ELSE <<Head(s)>>) \o CleanTokens(Tail(s))

\* clean_text (the texts of the model hold no code block)
clean_text(text, max_length) ==
    LET cleaned == Strip(CleanTokens(CollapseSpaces(text)))
    IN IF text = <<>> THEN <<>>
       ELSE IF CharLen(cleaned) > max_length THEN Take(cleaned, max_length)
       ELSE cleaned

RECURSIVE LastPunctFrom(_, _, _, _)
\* max(s.rfind('.'), s.rfind('!'), s.rfind('?')): i is the token read, at is its
\* offset, best the last offset found
LastPunctFrom(s, i, at, best) ==
    IF i > Len(s) THEN best
    ELSE LastPunctFrom(s, i + 1, at + s[i].n, IF IsPunct(s[i]) THEN at ELSE best)

LastPunct(s) == LastPunctFrom(s, 1, 0, -1)

RECURSIVE ChunkLoop(_, _, _, _, _, _)
\* the while loop of chunk_text, lines 69-89
ChunkLoop(text, start, chunks, chunk_chars, overlap, max_chunks) ==
    IF ~(start < CharLen(text) /\ Len(chunks) < max_chunks) THEN chunks
    ELSE LET end0 == start + chunk_chars
             last_period == LastPunct(Slice(text, start, end0))
             end == IF end0 < CharLen(text) /\ last_period > chunk_chars - 100
                    THEN start + last_period + 1 ELSE end0
             chunk == Strip(Slice(text, start, end))
             chunks1 == IF chunk # <<>> THEN Append(chunks, chunk) ELSE chunks
         IN IF end - overlap >= CharLen(text) THEN chunks1
            ELSE ChunkLoop(text, end - overlap, chunks1, chunk_chars, overlap, max_chunks)

\* chunk_text
chunk_text(text, chunk_chars, overlap, max_chunks) ==
    IF text = <<>> THEN <<>>
    ELSE IF CharLen(text) <= chunk_chars THEN <<text>>
    ELSE ChunkLoop(text, 0, <<>>, chunk_chars, overlap, max_chunks)

----------------------------------------------------------------------------
(* gemini_generator.py: static context pack.                               *)

\* the ids of KILOCODE_CONTEXT_PACK, in pack order
KILOCODE_CONTEXT_PACK ==
    <<"core", "analysis", "debugging", "refactoring", "docs", "testing", "context", "workflow">>

\* the score get_relevant_context_snippets gives a snippet for a lower-cased text
SnippetScore(id, text) ==
    IF id = "debugging" /\ AnyIn(text, {"debug", "bug", "error", "issue", "crash", "fix"}, {}) THEN 10
    ELSE IF id = "refactoring"
            /\ AnyIn(text, {"refactor", "cleanup", "legacy", "rewrite"}, {<<"technical", " ", "debt">>}) THEN 10
    ELSE IF id = "testing"
            /\ AnyIn(text, {"test", "coverage", "tdd", "spec"}, {<<"unit", " ", "test">>}) THEN 10
    ELSE IF id = "docs"
            /\ AnyIn(text, {"document", "readme", "comment", "jsdoc", "docstring"}, {}) THEN 10
    ELSE IF id = "analysis"
            /\ AnyIn(text, {"analyze", "review", "understand", "codebase", "structure"}, {}) THEN 10
    ELSE IF id = "context"
            /\ AnyIn(text, {"context", "project", "large", "monorepo"}, {<<"multiple", " ", "files">>}) THEN 10
    ELSE IF id = "workflow"
            /\ AnyIn(text, {"workflow", "productivity", "automate", "boilerplate"}, {}) THEN 10
    ELSE IF id = "core" THEN 3
    ELSE 0

\* the ids of s that score exactly `score` on text, in the order of s
RECURSIVE SelectIds(_, _, _)
SelectIds(s, text, score) ==
    IF s = <<>> THEN <<>>
    ELSE (IF SnippetScore(Head(s), text) = score THEN <<Head(s)>> ELSE <<>>)
         \o SelectIds(Tail(s), text, score)

\* faulty variant of get_relevant_context_snippets: only the core entry is selected
SelectCoreOnly(post_content, post_title, max_snippets) == <<"core">>

\* faulty variant of get_relevant_context_snippets: the scores are sorted
\* without reverse=True
SelectWithoutReverse(post_content, post_title, max_snippets) ==
    LET text == Lower(post_title \o <<SP>> \o post_content)
        ranked == SelectIds(KILOCODE_CONTEXT_PACK, text, 3)
                  \o SelectIds(KILOCODE_CONTEXT_PACK, text, 10)
        selected == SubSeq(ranked, 1, IF Len(ranked) < max_snippets THEN Len(ranked) ELSE max_snippets)
    IN IF Len(selected) < max_snippets /\ ~(\E i \in 1..Len(selected) : selected[i] = "core")
       THEN Append(selected, "core")
       ELSE selected

\* get_relevant_context_snippets: the ids selected, in order.  The sort by score
\* is stable, so the snippets scoring 10 come first in pack order, then core (3).
get_relevant_context_snippets(post_content, post_title, max_snippets) ==
    LET text == Lower(post_title \o <<SP>> \o post_content)
        ranked == SelectIds(KILOCODE_CONTEXT_PACK, text, 10)
                  \o SelectIds(KILOCODE_CONTEXT_PACK, text, 3)
        selected == SubSeq(ranked, 1, IF Len(ranked) < max_snippets THEN Len(ranked) ELSE max_snippets)
    IN IF Len(selected) < max_snippets /\ ~(\E i \in 1..Len(selected) : selected[i] = "core")
       THEN Append(selected, "core")
       ELSE selected

----------------------------------------------------------------------------
(* gemini_generator.py: key points.                                        *)

RECURSIVE QuestionsFrom(_, _)
\* re.findall(r'([^.!?]*\?)', text): seg is the run of non-punctuation read so far
QuestionsFrom(s, seg) ==
    IF s = <<>> THEN <<>>
    ELSE IF Head(s).w = "?" THEN <<Append(seg, Head(s))>> \o QuestionsFrom(Tail(s), <<>>)
    ELSE IF IsPunct(Head(s)) THEN QuestionsFrom(Tail(s), <<>>)
    ELSE QuestionsFrom(Tail(s), Append(seg, Head(s)))

RECURSIVE KeyTechTerms(_)
\* re.findall(r'\b([A-Z][a-zA-Z]+(?:\s+[A-Z][a-zA-Z]+)?)\b', text), left to right
KeyTechTerms(s) ==
    LET IsCapWord(t) == IsWord(t) /\ t.cap /\ t.n >= 2
        RECURSIVE Spaces(_)
        Spaces(u) == IF u # <<>> /\ IsSpace(Head(u)) THEN 1 + Spaces(Tail(u)) ELSE 0
        k == Spaces(Tail(s))
    IN IF s = <<>> THEN <<>>
       ELSE IF ~IsCapWord(Head(s)) THEN KeyTechTerms(Tail(s))
       ELSE IF k >= 1 /\ Len(s) >= k + 2 /\ IsCapWord(s[k + 2])
            THEN <<SubSeq(s, 1, k + 2)>> \o KeyTechTerms(SubSeq(s, k + 3, Len(s)))
       ELSE <<SubSeq(s, 1, 1)>> \o KeyTechTerms(Tail(s))

\* the words both tech-term filters drop
TechStopwords == {"the", "this", "that", "when", "where", "what", "have", "been", "just"}

\* t.lower() in a set of single words
LowerIn(term, stop) == Len(term) = 1 /\ term[1].w \in stop

RECURSIVE FilterTerms(_, _, _)
\* [t for t in terms if len(t) > minlen and t.lower() not in stop]
FilterTerms(terms, minlen, stop) ==
    IF terms = <<>> THEN <<>>
    ELSE (IF CharLen(Head(terms)) > minlen /\ ~LowerIn(Head(terms), stop)
          THEN <<Head(terms)>> ELSE <<>>) \o FilterTerms(Tail(terms), minlen, stop)

RECURSIVE UntilDot(_)
\* [^.]+ : the characters up to the next full stop
UntilDot(s) == IF s = <<>> \/ Head(s).w = "." THEN <<>> ELSE <<Head(s)>> \o UntilDot(Tail(s))

\* the lead of leads that s starts with, or <<>>
LeadAt(s, leads) ==
    IF \E l \in leads : Len(s) >= Len(l) /\ Spelling(SubSeq(s, 1, Len(l))) = l
    THEN CHOOSE l \in leads : Len(s) >= Len(l) /\ Spelling(SubSeq(s, 1, Len(l))) = l
    ELSE <<>>

RECURSIVE FirstProblem(_, _)
\* re.findall(r"(<lead> [^.]+)", text.lower())[:1]: the leftmost match
FirstProblem(s, leads) ==
    LET l == LeadAt(s, leads)
        rest == UntilDot(SubSeq(s, Len(l) + 1, Len(s)))
    IN IF s = <<>> THEN <<>>
       ELSE IF l # <<>> /\ rest # <<>> THEN <<SubSeq(s, 1, Len(l)) \o rest>>
       ELSE FirstProblem(Tail(s), leads)

\* problem_patterns: the alternatives of each pattern up to and including the
\* blank before [^.]+
problem_patterns ==
    << {<<"having", " ", "trouble", " ", "with", " ">>},
       {<<"struggling", " ", "with", " ">>},
       {<<"can't", " ", "figure", " ", "out", " ">>},
       {<<e, " ", p, " ">> : e \in {"error", "errors"}, p \in {"when", "with", "in"}},
       {<<e, " ", p, " ">> : e \in {"issue", "issues"}, p \in {"when", "with", "in"}} >>

RECURSIVE ProblemPoints(_, _)
\* the "Problem: ..." key points, one per pattern that matches
ProblemPoints(text, i) ==
    IF i > Len(problem_patterns) THEN <<>>
    ELSE LET m == FirstProblem(Lower(text), problem_patterns[i])
         IN (IF m = <<>> THEN <<>> ELSE <<<<CapW("problem"), Tok(":", 1), SP>> \o m[1]>>)
            \o ProblemPoints(text, i + 1)

RECURSIVE JoinComma(_)
\* ', '.join(terms)
JoinComma(ts) ==
    IF ts = <<>> THEN <<>>
    ELSE IF Len(ts) = 1 THEN ts[1]
    ELSE ts[1] \o <<Tok(",", 1), SP>> \o JoinComma(Tail(ts))

\* the orders in which list(set(terms)) may enumerate the distinct terms
SetOrders(terms) ==
    LET S == {terms[i] : i \in 1..Len(terms)}
    IN {f \in [1..Cardinality(S) -> S] : \A i, j \in 1..Cardinality(S) : f[i] = f[j] => i = j}

\* _extract_key_points: the lists it may return (the order of the technology
\* terms is that of a Python set, which the code does not fix)
_extract_key_points(post_title, post_content) ==
    LET text == post_title \o <<SP>> \o post_content
        qs == QuestionsFrom(text, <<>>)
        q2 == SubSeq(qs, 1, IF Len(qs) < 2 THEN Len(qs) ELSE 2)
        QPoint(q) == IF CharLen(Strip(q)) > 20 /\ CharLen(Strip(q)) < 200
                     THEN <<<<CapW("question"), Tok(":", 1), SP>> \o Strip(q)>> ELSE <<>>
        qpts == (IF Len(q2) >= 1 THEN QPoint(q2[1]) ELSE <<>>)
                \o (IF Len(q2) >= 2 THEN QPoint(q2[2]) ELSE <<>>)
        terms == FilterTerms(KeyTechTerms(text), 3, TechStopwords)
        probs == ProblemPoints(text, 1)
        Cut(kp) == SubSeq(kp, 1, IF Len(kp) < 5 THEN Len(kp) ELSE 5)
    IN IF terms = <<>> THEN {Cut(qpts \o probs)}
       ELSE {Cut(qpts
                 \o <<<<CapW("technologies/topics"), Tok(":", 1), SP>>
                      \o JoinComma(SubSeq(o, 1, IF Len(o) < 5 THEN Len(o) ELSE 5))>>
                 \o probs) : o \in SetOrders(terms)}

----------------------------------------------------------------------------
(* gemini_generator.py: the fallback synthesizer.                          *)

GENERIC_PHRASES ==
    { <<"many", " ", "developers", " ", "encounter">>,
      <<"this", " ", "is", " ", "something", " ", "many">>,
      <<"analyze", " ", "systematically">>,
      <<"time-consuming", " ", "manual", " ", "inspection">>,
      <<"similar", " ", "patterns", " ", "in", " ", "your", " ", "codebase">>,
      <<"complex", " ", "debugging", " ", "scenarios">>,
      <<"can", " ", "help", " ", "analyze", " ", "the", " ", "problem">>,
      <<"potential", " ", "solutions", " ", "based", " ", "on", " ", "similar", " ", "patterns">> }

\* faulty variant of _check_generic_phrases: nothing is ever detected
NoGenericPhraseFound(comment) == {}

\* _check_generic_phrases: the generic phrases detected in the comment
_check_generic_phrases(comment) == {ph \in GENERIC_PHRASES : Contains(comment, ph)}

RECURSIVE FallbackTechTerms(_)
\* re.findall(r'\b([A-Z][a-zA-Z]+(?:\.?[a-zA-Z]+)?)\b', text), left to right
FallbackTechTerms(s) ==
    IF s = <<>> THEN <<>>
    ELSE IF ~(IsWord(Head(s)) /\ Head(s).cap /\ Head(s).n >= 2) THEN FallbackTechTerms(Tail(s))
    ELSE IF Len(s) >= 3 /\ s[2].w = "." /\ IsWord(s[3])
         THEN <<SubSeq(s, 1, 3)>> \o FallbackTechTerms(SubSeq(s, 4, Len(s)))
    ELSE <<SubSeq(s, 1, 1)>> \o FallbackTechTerms(Tail(s))

\* the spellings that hold a problem word, with the word they hold
ProblemWordIn(w) ==
    CASE w \in {"error", "errors"} -> <<"error">>
      [] w \in {"bug", "debugging"} -> <<"bug">>
      [] w \in {"issue", "problem", "trouble", "failing", "broken", "crash"} -> <<w>>
      [] OTHER -> <<>>

RECURSIVE ProblemWords(_)
\* re.findall(r'(error|bug|issue|problem|trouble|failing|broken|crash)', text.lower())
ProblemWords(s) == IF s = <<>> THEN <<>> ELSE ProblemWordIn(Head(s).w) \o ProblemWords(Tail(s))

ActionLeads ==
    { <<"trying", " ", "to", " ">>, <<"want", " ", "to", " ">>, <<"need", " ", "to", " ">>,
      <<"how", " ", "to", " ">>, <<"can't", " ">>, <<"cannot", " ">>, <<"unable", " ", "to", " ">> }

RECURSIVE ActionMatch(_)
\* re.search(r"(trying to|...|unable to) (\w+)", text.lower()): group 2 as a
\* one-element sequence, or <<>> when there is no match
ActionMatch(s) ==
    LET l == LeadAt(s, ActionLeads)
    IN IF s = <<>> THEN <<>>
       ELSE IF l # <<>> /\ Len(s) > Len(l) /\ IsWord(s[Len(l) + 1]) THEN <<s[Len(l) + 1]>>
       ELSE ActionMatch(Tail(s))

ContextMapIds == {"debugging", "analysis", "refactoring", "testing", "docs", "context", "workflow", "core"}

\* context_map of _generate_enhanced_fallback
context_map ==
    [id \in ContextMapIds |->
        CASE id = "debugging" ->
               Ws(<<"kilocode", "can", "trace", "through", "the", "code", "flow", "and", "pinpoint", "where",
                    "things", "diverge", "from", "expected", "behavior">>) \o <<DOT>>
          [] id = "analysis" ->
               Ws(<<"kilocode", "can", "analyze", "your", "codebase", "structure", "and", "highlight", "the",
                    "relevant", "dependencies">>) \o <<DOT>>
          [] id = "refactoring" ->
               Ws(<<"kilocode", "can", "map", "the", "dependencies", "and", "suggest", "a", "safe",
                    "refactoring", "sequence">>) \o <<DOT>>
          [] id = "testing" ->
               Ws(<<"kilocode", "can", "identify", "the", "code", "paths", "and", "suggest", "specific",
                    "test", "cases">>) \o <<DOT>>
          [] id = "docs" ->
               Ws(<<"kilocode", "can", "scan", "your", "code", "and", "generate", "accurate",
                    "documentation">>) \o <<DOT>>
          [] id = "context" ->
               Ws(<<"kilocode", "maintains", "project-wide", "context", "so", "it", "understands", "how",
                    "pieces", "connect">>) \o <<DOT>>
          [] id = "workflow" ->
               Ws(<<"kilocode", "can", "automate", "the", "repetitive", "parts", "while", "you", "focus",
                    "on", "the", "architecture">>) \o <<DOT>>
          [] id = "core" ->
               Ws(<<"kilocode", "understands", "your", "full", "project", "context">>) \o <<Tok(",", 1), SP>>
               \o Ws(<<"not", "just", "individual", "files">>) \o <<DOT>>]

\* the fixed pieces of the sentences _generate_enhanced_fallback builds
FbSetup == <<Tok(",", 1), SP>> \o Ws(<<"the", "approach", "will", "depend", "on", "your", "specific", "setup">>) \o <<DOT>>
FbSeeing == <<SP>> \o Ws(<<"you're", "seeing", "with">>) \o <<SP>>
FbCause == <<SP>> \o Ws(<<"likely", "has", "a", "specific", "cause", "you", "can", "track", "down">>) \o <<DOT>>
FbSpecifics == <<SP>> \o Ws(<<"does", "require", "attention", "to", "some", "specifics">>) \o <<DOT>>
FbApproaches ==
    <<Tok("'", 1), SP, Tok("-", 1), SP>>
    \o Ws(<<"there", "are", "a", "few", "approaches", "worth", "considering">>) \o <<DOT>>
FbQuestion ==
    <<CapW("that's"), SP>>
    \o Ws(<<"a", "good", "question", "that", "depends", "on", "your", "specific", "requirements">>) \o <<DOT>>
FbChallenge ==
    <<CapW("the"), SP>>
    \o Ws(<<"challenge", "you've", "outlined", "has", "some", "specific", "factors", "to", "consider">>)
    \o <<DOT>>
FbStart == Ws(<<"start", "by", "having", "kilocode", "analyze", "the">>) \o <<SP>>
FbRelated == <<Tok("-", 1)>> \o Ws(<<"related", "code", "to", "see", "the", "full", "picture">>) \o <<DOT>>
FbPointing ==
    Ws(<<"try", "pointing", "kilocode", "at", "the", "relevant", "files", "to", "get", "a", "clearer",
         "view", "of", "what's", "happening">>) \o <<DOT>>
FbRunning ==
    Ws(<<"running", "kilocode's", "analysis", "on", "the", "relevant", "code", "should", "surface",
         "the", "key", "factors">>) \o <<DOT>>
FbNuclearTopic ==
    <<SP, W("question"), Tok(":", 1), SP>>
    \o Ws(<<"kilocode", "can", "analyze", "that", "specific", "code", "and", "show", "you", "exactly",
            "what's", "happening">>) \o <<DOT, SP>>
    \o Ws(<<"point", "it", "at", "the", "relevant", "files", "and", "it'll", "map", "out", "the",
            "dependencies", "and", "flow">>) \o <<DOT>>
FbNuclear ==
    Ws(<<"this", "looks", "like", "something", "where", "seeing", "the", "actual", "code", "context",
         "would", "help">>) \o <<DOT, SP>>
    \o Ws(<<"kilocode's", "project", "analysis", "can", "show", "the", "specific", "relationships",
            "and", "highlight", "what", "needs", "attention">>) \o <<DOT>>

RECURSIVE FirstMapped(_)
\* the first of context_ids that context_map has, as a one-element sequence
FirstMapped(ids) ==
    IF ids = <<>> THEN <<>>
    ELSE IF Head(ids) \in ContextMapIds THEN <<Head(ids)>> ELSE FirstMapped(Tail(ids))

\* point.replace(old, ""), for a capitalised label "Old: " that the text holds
\* at its start or not at all
DropPrefix(s, old) ==
    IF Len(s) >= Len(old) /\ Spelling(SubSeq(s, 1, Len(old))) = old /\ s[1].cap
    THEN SubSeq(s, Len(old) + 1, Len(s)) ELSE s

\* faulty variant of _generate_enhanced_fallback: the brand is left out
UnbrandedFallback(post_title, post_content, key_points, context_ids) == FbChallenge

\* faulty variant of _generate_enhanced_fallback: nothing is synthesized
EmptyFallback(post_title, post_content, key_points, context_ids) == <<>>

\* _generate_enhanced_fallback
_generate_enhanced_fallback(post_title, post_content, key_points, context_ids) ==
    LET text == post_title \o <<SP>> \o post_content
        tech_terms == FilterTerms(FallbackTechTerms(text), 2, TechStopwords \cup {"can", "will"})
        has_topic == tech_terms # <<>>
        main_topic == IF has_topic THEN tech_terms[1] ELSE <<>>
        problem_words == ProblemWords(Lower(text))
        action_match == ActionMatch(Lower(text))
        has_action == action_match # <<>>
        action == IF has_action THEN action_match[1] ELSE W("none")
        point0 == DropPrefix(DropPrefix(key_points[1], <<"question", ":", " ">>), <<"problem", ":", " ">>)
        point == IF CharLen(point0) > 50 THEN Take(point0, 50) \o <<Tok("...", 3)>> ELSE point0
        opening ==
            IF has_topic /\ has_action
            THEN <<CapW("for"), SP, action, W("ing"), SP, W("with"), SP>> \o main_topic \o FbSetup
            ELSE IF has_topic /\ problem_words # <<>>
            THEN <<CapW("the"), SP, W(problem_words[1])>> \o FbSeeing \o main_topic \o FbCause
            ELSE IF has_topic
            THEN <<CapW("working"), SP, W("with"), SP>> \o main_topic \o FbSpecifics
            ELSE IF key_points # <<>>
            THEN <<CapW("regarding"), SP, Tok("'", 1)>> \o point \o FbApproaches
            ELSE IF \E i \in 1..Len(text) : text[i].w = "?" THEN FbQuestion
            ELSE FbChallenge
        mapped == FirstMapped(context_ids)
        kilocode_rec ==
            IF mapped # <<>> THEN context_map[mapped[1]]
            ELSE IF problem_words # <<>> THEN context_map["debugging"]
            ELSE IF has_action /\ action.w \in {"refactor", "clean", "rewrite"} THEN context_map["refactoring"]
            ELSE context_map["core"]
        suggestion ==
            IF has_topic THEN FbStart \o main_topic \o FbRelated
            ELSE IF has_action THEN FbPointing
            ELSE FbRunning
        result == opening \o <<SP>> \o kilocode_rec \o <<SP>> \o suggestion
    IN IF _check_generic_phrases(result) # {}
       THEN IF has_topic
            THEN <<CapW("for"), SP, W("your"), SP>> \o main_topic \o FbNuclearTopic
            ELSE FbNuclear
       ELSE result

----------------------------------------------------------------------------
(* gemini_generator.py: the quality validator.                             *)

MIN_COMMENT_LENGTH == 200
MAX_COMMENT_LENGTH == 800
MIN_SENTENCES == 2
MAX_SENTENCES == 5

FORBIDDEN_PHRASES ==
    { <<"interesting", " ", "discussion">>, <<"thanks", " ", "for", " ", "sharing">>,
      <<"great", " ", "post">>, <<"nice", " ", "thread">>, <<"good", " ", "topic">>,
      <<"appreciate", " ", "this">>, <<"thanks", " ", "for", " ", "starting">>,
      <<"check", " ", "out", " ", "our">>, <<"visit", " ", "our", " ", "website">> }

RECURSIVE SentencesFrom(_, _, _)
\* the number of pieces of re.split(r'[.!?]+', text) from character i on that
\* hold a non-blank character; open says whether the piece being read holds one.
\* The dots of "..." split like any other, and a link holds one dot between
\* its characters ("http://t" and "co/x")
SentencesFrom(s, i, open) ==
    IF i > Len(s) THEN (IF open THEN 1 ELSE 0)
    ELSE IF IsPunct(s[i]) \/ s[i].w = "..."
         THEN (IF open THEN 1 ELSE 0) + SentencesFrom(s, i + 1, FALSE)
    ELSE IF IsLink(s[i]) THEN 1 + SentencesFrom(s, i + 1, TRUE)
    ELSE SentencesFrom(s, i + 1, open \/ ~IsSpace(s[i]))

\* _count_sentences
_count_sentences(text) == SentencesFrom(Strip(text), 1, FALSE)

\* faulty variant of _check_forbidden_phrases: no phrase is ever found
NoForbiddenPhraseFound(comment) == TRUE

\* _check_forbidden_phrases: TRUE when the comment holds none
_check_forbidden_phrases(comment) == ~\E ph \in FORBIDDEN_PHRASES : Contains(comment, ph)

\* the words the overlap rule ignores
CommonWords ==
    {"about", "there", "their", "would", "could", "should", "which", "these", "those",
     "kilocode", "really", "actually", "something", "definitely", "particularly"}

\* set(re.findall(r'\b\w{5,}\b', text.lower())) minus the common words; a word
\* is known by its spelling and its length
ContentWords(text) ==
    {[w |-> text[i].w, n |-> text[i].n] :
        i \in {j \in 1..Len(text) : IsWord(text[j]) /\ text[j].n >= 5 /\ text[j].w \notin CommonWords}}

\* faulty variant of _validate_comment_quality: only the length rules are applied
ValidateLengthOnly(comment, post_title, post_content) ==
    LET ok == CharLen(comment) >= MIN_COMMENT_LENGTH /\ CharLen(comment) <= MAX_COMMENT_LENGTH
    IN [is_valid |-> ok,
        reason |-> IF ok THEN "valid" ELSE "too_short",
        details |-> [length |-> CharLen(comment), sentence_count |-> 0, has_kilocode |-> FALSE,
                     overlap_count |-> 0, generic_phrases |-> {}]]

\* faulty variant of _validate_comment_quality: the generic phrases are looked
\* for before the forbidden ones
ValidateGenericBeforeForbidden(comment, post_title, post_content) ==
    LET length == CharLen(comment)
        sentence_count == _count_sentences(comment)
        has_kilocode == HasSub(Lower(comment), "kilocode")
        generic == _check_generic_phrases(comment)
        overlap == ContentWords(post_title \o <<SP>> \o post_content) \cap ContentWords(comment)
        base == [length |-> length, sentence_count |-> sentence_count,
                 has_kilocode |-> has_kilocode, overlap_count |-> 0, generic_phrases |-> {}]
        R(ok, reason, details) == [is_valid |-> ok, reason |-> reason, details |-> details]
    IN IF length < MIN_COMMENT_LENGTH THEN R(FALSE, "too_short", base)
       ELSE IF length > MAX_COMMENT_LENGTH THEN R(FALSE, "too_long", base)
       ELSE IF sentence_count < MIN_SENTENCES THEN R(FALSE, "too_few_sentences", base)
       ELSE IF sentence_count > MAX_SENTENCES THEN R(FALSE, "too_many_sentences", base)
       ELSE IF ~has_kilocode THEN R(FALSE, "no_kilocode_mention", base)
       ELSE IF generic # {}
            THEN R(FALSE, "contains_generic_phrases", [base EXCEPT !.generic_phrases = generic])
       ELSE IF ~_check_forbidden_phrases(comment) THEN R(FALSE, "contains_forbidden_phrase", base)
       ELSE IF Cardinality(overlap) < 2
            THEN R(FALSE, "insufficient_context_reference",
                   [base EXCEPT !.generic_phrases = generic, !.overlap_count = Cardinality(overlap)])
       ELSE R(TRUE, "valid",
              [base EXCEPT !.generic_phrases = generic, !.overlap_count = Cardinality(overlap)])

\* faulty variant of _validate_comment_quality: every metric is computed
\* before the first rule is applied
ValidateEagerDetails(comment, post_title, post_content) ==
    LET length == CharLen(comment)
        sentence_count == _count_sentences(comment)
        has_kilocode == HasSub(Lower(comment), "kilocode")
        generic == _check_generic_phrases(comment)
        overlap == ContentWords(post_title \o <<SP>> \o post_content) \cap ContentWords(comment)
        base == [length |-> length, sentence_count |-> sentence_count,
                 has_kilocode |-> has_kilocode, overlap_count |-> Cardinality(overlap),
                 generic_phrases |-> generic]
        R(ok, reason, details) == [is_valid |-> ok, reason |-> reason, details |-> details]
    IN IF length < MIN_COMMENT_LENGTH THEN R(FALSE, "too_short", base)
       ELSE IF length > MAX_COMMENT_LENGTH THEN R(FALSE, "too_long", base)
       ELSE IF sentence_count < MIN_SENTENCES THEN R(FALSE, "too_few_sentences", base)
       ELSE IF sentence_count > MAX_SENTENCES THEN R(FALSE, "too_many_sentences", base)
       ELSE IF ~has_kilocode THEN R(FALSE, "no_kilocode_mention", base)
       ELSE IF ~_check_forbidden_phrases(comment) THEN R(FALSE, "contains_forbidden_phrase", base)
       ELSE IF generic # {}
            THEN R(FALSE, "contains_generic_phrases", [base EXCEPT !.generic_phrases = generic])
       ELSE IF Cardinality(overlap) < 2
            THEN R(FALSE, "insufficient_context_reference",
                   [base EXCEPT !.generic_phrases = generic, !.overlap_count = Cardinality(overlap)])
       ELSE R(TRUE, "valid",
              [base EXCEPT !.generic_phrases = generic, !.overlap_count = Cardinality(overlap)])

\* _validate_comment_quality: (is_valid, reason, details)
_validate_comment_quality(comment, post_title, post_content) ==
    LET length == CharLen(comment)
        sentence_count == _count_sentences(comment)
        has_kilocode == HasSub(Lower(comment), "kilocode")
        generic == _check_generic_phrases(comment)
        overlap == ContentWords(post_title \o <<SP>> \o post_content) \cap ContentWords(comment)
        base == [length |-> length, sentence_count |-> sentence_count,
                 has_kilocode |-> has_kilocode, overlap_count |-> 0, generic_phrases |-> {}]
        R(ok, reason, details) == [is_valid |-> ok, reason |-> reason, details |-> details]
    IN IF length < MIN_COMMENT_LENGTH THEN R(FALSE, "too_short", base)
       ELSE IF length > MAX_COMMENT_LENGTH THEN R(FALSE, "too_long", base)
       ELSE IF sentence_count < MIN_SENTENCES THEN R(FALSE, "too_few_sentences", base)
       ELSE IF sentence_count > MAX_SENTENCES THEN R(FALSE, "too_many_sentences", base)
       ELSE IF ~has_kilocode THEN R(FALSE, "no_kilocode_mention", base)
       ELSE IF ~_check_forbidden_phrases(comment) THEN R(FALSE, "contains_forbidden_phrase", base)
       ELSE IF generic # {}
            THEN R(FALSE, "contains_generic_phrases", [base EXCEPT !.generic_phrases = generic])
       ELSE IF Cardinality(overlap) < 2
            THEN R(FALSE, "insufficient_context_reference",
                   [base EXCEPT !.generic_phrases = generic, !.overlap_count = Cardinality(overlap)])
       ELSE R(TRUE, "valid",
              [base EXCEPT !.generic_phrases = generic, !.overlap_count = Cardinality(overlap)])

----------------------------------------------------------------------------
(* gemini_generator.py: error classification and the model chain.          *)

CONFIG_ERROR_TYPES == {"NotFound", "InvalidArgument", "PermissionDenied", "Unauthenticated"}
TRANSIENT_ERROR_TYPES ==
    {"ServiceUnavailable", "DeadlineExceeded", "ResourceExhausted", "InternalServerError"}

\* the substrings classify_error looks for that a message holds ("not found"
\* and "rate" in whatever case)
MsgSubs(msg) ==
    CASE msg = "404 model not found" -> {"404", "not found"}
      [] msg = "429 rate limit" -> {"429", "rate"}
      [] msg = "503 unavailable" -> {"503"}
      [] msg = "500 internal" -> {"500"}
      [] msg = "Model Not Found" -> {"not found"}
      [] msg = "Rate exceeded 404" -> {"rate", "404"}
      [] msg = "generate failed" -> {"rate"}
      [] msg = "503 not found" -> {"503", "not found"}
      [] msg = "500 after 429" -> {"500", "429"}
      [] OTHER -> {}

\* faulty variant of classify_error: the message is read before the type
ClassifyMessageFirst(error) ==
    IF MsgSubs(error.msg) \cap {"404", "not found"} # {} THEN "config_error"
    ELSE IF MsgSubs(error.msg) \cap {"429", "rate"} # {} THEN "transient_error"
    ELSE IF MsgSubs(error.msg) \cap {"500", "503"} # {} THEN "transient_error"
    ELSE IF error.type \in CONFIG_ERROR_TYPES THEN "config_error"
    ELSE IF error.type \in TRANSIENT_ERROR_TYPES THEN "transient_error"
    ELSE "unknown_error"

\* classify_error, for an exception [type, msg]
classify_error(error) ==
    IF error.type \in CONFIG_ERROR_TYPES THEN "config_error"
    ELSE IF error.type \in TRANSIENT_ERROR_TYPES THEN "transient_error"
    ELSE IF MsgSubs(error.msg) \cap {"404", "not found"} # {} THEN "config_error"
    ELSE IF MsgSubs(error.msg) \cap {"429", "rate"} # {} THEN "transient_error"
    ELSE IF MsgSubs(error.msg) \cap {"500", "503"} # {} THEN "transient_error"
    ELSE "unknown_error"

GEMINI_PRIMARY_MODEL == "gemini-2.0-flash"
GEMINI_FALLBACK_MODELS == <<"gemini-1.5-flash", "gemini-1.5-pro">>
\* models_to_try of generate_comment_with_gemini
models_to_try == <<GEMINI_PRIMARY_MODEL>> \o GEMINI_FALLBACK_MODELS

\* faulty variant of ErrorDecision: a config error is retried like a transient one
ErrorDecisionRetryConfig(error_type, attempt, max_retries) ==
    IF error_type \in {"config_error", "transient_error"}
    THEN (IF attempt < max_retries THEN "continue" ELSE "break")
    ELSE (IF attempt < 1 THEN "continue" ELSE "break")

\* faulty variant of wait_time: the wait does not grow
ConstantWait(error_type, attempt, max_retries) ==
    IF error_type = "transient_error" /\ attempt < max_retries THEN 500 ELSE 0

\* faulty variant of ErrorDecision: an unknown error is retried while budget remains
ErrorDecisionRetryUnknown(error_type, attempt, max_retries) ==
    IF error_type = "config_error" THEN "break"
    ELSE (IF attempt < max_retries THEN "continue" ELSE "break")

\* faulty variant of QualityDecision: a rejected draft abandons the model
QualityDecisionGiveUp(reason, attempt, max_retries) == "break"

\* faulty variant of NextPosition: the attempt loop runs one attempt too many
NextPositionExtraAttempt(model_idx, attempt, max_retries, how) ==
    IF how # "break" /\ attempt + 1 < max_retries + 2
    THEN [model_idx |-> model_idx, attempt |-> attempt + 1]
    ELSE [model_idx |-> model_idx + 1, attempt |-> 0]

\* faulty variant of NextPosition: a break leaves the model loop as well
NextPositionBreakLeaves(model_idx, attempt, max_retries, how) ==
    IF how # "break" /\ attempt + 1 < max_retries + 1
    THEN [model_idx |-> model_idx, attempt |-> attempt + 1]
    ELSE IF how = "break"
         THEN [model_idx |-> Len(models_to_try), attempt |-> 0]
         ELSE [model_idx |-> model_idx + 1, attempt |-> 0]

\* what the retry loop does after a failed call: lines 586-610
ErrorDecision(error_type, attempt, max_retries) ==
    IF error_type = "config_error" THEN "break"
    ELSE IF error_type = "transient_error"
         THEN (IF attempt < max_retries THEN "continue" ELSE "break")
    ELSE (IF attempt < 1 THEN "continue" ELSE "break")

\* the time.sleep of the transient branch, in milliseconds: (2 ** attempt) * 0.5 s
wait_time(error_type, attempt, max_retries) ==
    IF error_type = "transient_error" /\ attempt < max_retries THEN (2 ^ attempt) * 500 ELSE 0

\* what the retry loop does after a draft the validator rejects: lines 620-631
QualityDecision(reason, attempt, max_retries) ==
    IF reason = "contains_generic_phrases" /\ attempt < max_retries THEN "continue"
    ELSE IF attempt < max_retries THEN "continue"
    ELSE "fall_through"

\* the loops of lines 556 and 560: where the engine stands after `how`
\* ("continue", "break" or "fall_through") at (model_idx, attempt);
\* model_idx = Len(models_to_try) says that the chain is exhausted
NextPosition(model_idx, attempt, max_retries, how) ==
    IF how # "break" /\ attempt + 1 < max_retries + 1
    THEN [model_idx |-> model_idx, attempt |-> attempt + 1]
    ELSE [model_idx |-> model_idx + 1, attempt |-> 0]

----------------------------------------------------------------------------
(* prompt_builder.py and comment_engine.py: the twitter strategy.          *)

\* the number of words of ws that start with a mention / with a link
MentionCount(ws) == Cardinality({i \in 1..Len(ws) : IsMention(ws[i][1])})
LinkCount(ws) == Cardinality({i \in 1..Len(ws) : IsLink(ws[i][1])})

\* detect_twitter_intent
detect_twitter_intent(text) ==
    LET t == Strip(Lower(text))
        words == Split(t)
    IN IF \E i \in 1..Len(t) : t[i].w = "?" THEN "question"
       ELSE IF AnyIn(t, {"new", "release", "launch", "update"}, {<<"just", " ", "announced">>})
       THEN "announcement"
       ELSE IF \/ Contains(t, <<" ", "vs", " ">>)
               \/ Contains(t, <<" ", "versus", " ">>)
               \/ Contains(t, <<"compared", " ", "to">>)
       THEN "comparison"
       ELSE IF LinkCount(words) > 0 /\ 2 * LinkCount(words) >= Len(words) THEN "link_share"
       ELSE IF MentionCount(words) > 0 /\ 10 * MentionCount(words) >= 3 * Len(words) THEN "mention"
       ELSE "general"

\* stopwords of build_twitter_comment
stopwords ==
    {"the", "a", "an", "is", "are", "was", "were", "be", "been", "being", "have", "has", "had",
     "do", "does", "did", "will", "would", "could", "should", "may", "might", "must", "shall",
     "this", "that", "these", "those", "i", "you", "he", "she", "it", "we", "they", "what",
     "which", "who", "whom", "and", "or", "but"}

\* w not in stopwords and len(w) > 3, for a word w of text.lower().split()
Interesting(w) == ~(Len(w) = 1 /\ w[1].w \in stopwords) /\ CharLen(w) > 3

\* ' '.join(interesting_words[:2]).title()
Referenced(interesting_words) ==
    Title(JoinSp(SubSeq(interesting_words, 1,
                        IF Len(interesting_words) < 2 THEN Len(interesting_words) ELSE 2)))

\* the fixed pieces of the replies of build_twitter_comment
TwQuestion == <<CapW("that's"), SP>> \o Ws(<<"an", "interesting", "question">>) \o <<BANG, SP>>
TwExploring == <<SP>> \o Ws(<<"is", "definitely", "worth", "exploring">>) \o <<DOT>>
TwUpdate == <<CapW("great"), SP>> \o Ws(<<"update", "on">>) \o <<SP>>
TwThanks == <<BANG, SP, CapW("thanks"), SP>> \o Ws(<<"for", "sharing">>) \o <<DOT>>
TwComparison ==
    <<CapW("the"), SP>> \o Ws(<<"comparison", "is", "really", "insightful">>)
    \o <<Tok(",", 1), SP>> \o Ws(<<"especially", "regarding">>) \o <<SP>>
TwLink ==
    <<CapW("thanks"), SP>> \o Ws(<<"for", "sharing", "this", "link">>)
    \o <<BANG, SP, CapW("looks"), SP, W("interesting"), DOT>>
TwMention ==
    <<CapW("good"), SP, W("point"), BANG, SP, CapW("thanks"), SP>>
    \o Ws(<<"for", "raising", "this">>) \o <<DOT>>
TwAppreciate == <<CapW("i"), SP>> \o Ws(<<"appreciate", "your", "thoughts", "on">>) \o <<SP>>
TwThoughtful ==
    <<DOT, SP, CapW("it's"), SP>> \o Ws(<<"a", "thoughtful", "perspective">>) \o <<BANG>>
TwGeneral ==
    <<CapW("thanks"), SP>> \o Ws(<<"for", "sharing", "this">>)
    \o <<BANG, SP, CapW("interesting"), SP, W("perspective"), DOT>>

\* build_twitter_comment
build_twitter_comment(text, intent, text_length) ==
    LET words == Split(Lower(text))
        interesting_words == SelectSeq(words, Interesting)
    IN CASE intent = "question" -> TwQuestion \o Referenced(interesting_words) \o TwExploring
         [] intent = "announcement" -> TwUpdate \o Referenced(interesting_words) \o TwThanks
         [] intent = "comparison" -> TwComparison \o Referenced(interesting_words) \o <<DOT>>
         [] intent = "link_share" -> TwLink
         [] intent = "mention" -> TwMention
         [] OTHER -> IF interesting_words # <<>>
                     THEN TwAppreciate \o Referenced(interesting_words) \o TwThoughtful
                     ELSE TwGeneral

\* the replies of generate_twitter_comment to an empty tweet, to mentions, to links
TwEmpty == <<CapW("interesting"), BANG, SP, CapW("thanks"), SP>> \o Ws(<<"for", "sharing">>) \o <<DOT>>
TwMostlyMentions ==
    <<CapW("good"), SP, W("point"), BANG, SP, CapW("interesting"), SP>>
    \o Ws(<<"perspective", "on", "this">>) \o <<DOT>>
TwMostlyLinks == <<CapW("thanks"), SP>> \o Ws(<<"for", "sharing", "this", "resource">>) \o <<BANG>>

\* generate_twitter_comment, for post.content
generate_twitter_comment(post_content) ==
    LET text == Strip(post_content)
        twitter_intent == detect_twitter_intent(text)
        words == Split(text)
        n == IF Len(words) > 1 THEN Len(words) ELSE 1
    IN IF text = <<>> THEN TwEmpty
       ELSE IF 2 * MentionCount(words) > n THEN TwMostlyMentions
       ELSE IF 2 * LinkCount(words) > n THEN TwMostlyLinks
       ELSE build_twitter_comment(text, twitter_intent, CharLen(text))

----------------------------------------------------------------------------
(* State.                                                                  *)

VARIABLES
    pc,        \* where the request stands
    caller,    \* "endpoint", "direct" (generate_comment called directly) or "engine"
    req,       \* the request: source and the platform marker its URL holds
    fetched,   \* the record fetch_post_content returned
    post,      \* the NormalizedPost and the fetch_status handed to generate_comment
    api_key,   \* whether GEMINI_API_KEY is set
    route,     \* the strategy the router of generate_comment selected, once it has
    frame,     \* the strategy of comment_engine.py that is running, with its locals
    eng,       \* the arguments and locals of generate_comment_with_gemini
    last,      \* the last call to the generative backend and what followed it
    calls,     \* the calls issued so far: generative, embedding, index search
    ret,       \* what generate_comment_with_gemini returned or raised
    gc,        \* what generate_comment returned or raised
    response   \* what the endpoint answered

vars == <<pc, caller, req, fetched, post, api_key, route, frame, eng, last, calls, ret, gc, response>>

None == [kind |-> "none"]
NoCall == [model_idx |-> -1, attempt |-> -1, outcome |-> "none", wait |-> 0,
           is_retry |-> FALSE, retry_reason |-> "", only_config |-> TRUE]
NoCalls == [gen |-> 0, embed |-> 0, search |-> 0]
NoEng == [post_title |-> <<>>, post_content |-> <<>>, doc_facts |-> <<>>, max_retries |-> 0,
          context_snippets_used |-> <<>>, key_points |-> <<>>,
          model_idx |-> 0, attempt |-> 0, last_error_type |-> "none"]

----------------------------------------------------------------------------
(* The backend's answers.                                                  *)

\* exceptions the generative backend raises
Errors ==
    { [type |-> "NotFound", msg |-> "404 model not found"],
      [type |-> "ServiceUnavailable", msg |-> "503 unavailable"],
      [type |-> "Exception", msg |-> "429 rate limit"],
      [type |-> "Exception", msg |-> "boom"] }

FillerLen == 200
\* a draft that passes every rule for a post about "great" and "Docker"
GoodDraft ==
    <<CapW("great"), SP, CapW("docker"), SP, Tok("lorem", FillerLen), DOT, SP, CapW("kilocode"), SP,
      W("helps"), DOT>>

\* texts the generative backend returns, after the clean-up of lines 471-476
Drafts ==
    { GoodDraft,
      <<>>,
      <<CapW("kilocode"), DOT>>,
      GoodDraft \o <<SP>> \o Ws(<<"many", "developers", "encounter", "this">>) \o <<DOT>>,
      GoodDraft \o <<SP, CapW("thanks"), SP>> \o Ws(<<"for", "sharing">>) \o <<DOT>>,
      GoodDraft \o <<SP, Tok("lorem", MAX_COMMENT_LENGTH), DOT>> }

----------------------------------------------------------------------------
(* generate_comment_with_gemini.                                           *)

\* lines 514-516: no API key
EngineNoApiKey ==
    /\ pc = "engine_call"
    /\ ~api_key
    /\ ret' = [kind |-> "raised", error |-> "ValueError"]
    /\ pc' = "engine_done"
    /\ UNCHANGED <<caller, req, fetched, post, api_key, route, frame, eng, last, calls, gc, response>>

\* lines 518-553: context, key points, model chain
EngineStart ==
    /\ pc = "engine_call"
    /\ api_key
    /\ \E kp \in _extract_key_points(eng.post_title, eng.post_content) :
           eng' = [eng EXCEPT
                     !.context_snippets_used =
                         IF eng.doc_facts # <<>>
                         THEN SubSeq(eng.doc_facts, 1, IF Len(eng.doc_facts) < 3 THEN Len(eng.doc_facts) ELSE 3)
                         ELSE get_relevant_context_snippets(eng.post_content, eng.post_title, 3),
                     !.key_points = kp,
                     !.model_idx = 0, !.attempt = 0, !.last_error_type = "none"]
    /\ last' = NoCall
    /\ pc' = "attempt"
    /\ UNCHANGED <<caller, req, fetched, post, api_key, route, frame, calls, ret, gc, response>>

\* faulty variant of ThisCall: every retry is given the reason of a rejected
\* draft, also after an error
ThisCallBlamesQuality(outcome, wait) ==
    [model_idx |-> eng.model_idx, attempt |-> eng.attempt, outcome |-> outcome, wait |-> wait,
     is_retry |-> eng.attempt > 0,
     retry_reason |-> IF eng.attempt > 0 THEN "too generic" ELSE "",
     only_config |-> last.only_config /\ outcome = "config_error"]

\* the call record of the attempt the engine is about to make: lines 561-584
ThisCall(outcome, wait) ==
    [model_idx |-> eng.model_idx, attempt |-> eng.attempt, outcome |-> outcome, wait |-> wait,
     is_retry |-> eng.attempt > 0,
     retry_reason |-> IF eng.attempt > 0 /\ eng.last_error_type = "quality_failed"
                      THEN "too generic" ELSE "",
     only_config |-> last.only_config /\ outcome = "config_error"]

\* the engine moves to position p, or leaves the loops for the fallback of line 635
MoveTo(p, error_type) ==
    IF p.model_idx < Len(models_to_try)
    THEN /\ eng' = [eng EXCEPT !.model_idx = p.model_idx, !.attempt = p.attempt,
                               !.last_error_type = error_type]
         /\ pc' = "attempt"
         /\ ret' = ret
    ELSE /\ eng' = [eng EXCEPT !.last_error_type = error_type]
         /\ pc' = "engine_done"
         /\ ret' = [kind |-> "fallback",
                    comment |-> _generate_enhanced_fallback(eng.post_title, eng.post_content,
                                                            eng.key_points, eng.context_snippets_used)]

\* faulty variant of Caught: only the errors of the Google client are caught
CaughtGoogleErrorsOnly(error) == error.type \in {"NotFound", "ServiceUnavailable"}

\* the `except Exception` of _try_generate_with_model (line 480): the classes
\* of Errors all derive from Exception
Caught(error) == error.type \in {"Exception", "NotFound", "ServiceUnavailable"}

\* lines 579-610: the backend raises
AttemptError ==
    /\ pc = "attempt"
    /\ \E e \in Errors :
         LET error_type == classify_error(e)
             how == ErrorDecision(error_type, eng.attempt, eng.max_retries)
         IN IF Caught(e)
            THEN /\ last' = ThisCall(error_type, wait_time(error_type, eng.attempt, eng.max_retries))
                 /\ MoveTo(NextPosition(eng.model_idx, eng.attempt, eng.max_retries, how), error_type)
            ELSE /\ last' = ThisCall("raised", 0)
                 /\ ret' = [kind |-> "raised", error |-> e.type]
                 /\ pc' = "engine_done"
                 /\ eng' = eng
    /\ calls' = [calls EXCEPT !.gen = @ + 1]
    /\ UNCHANGED <<caller, req, fetched, post, api_key, route, frame, gc, response>>

\* lines 579-619: the backend answers and the validator accepts the draft
AttemptAccepted ==
    /\ pc = "attempt"
    /\ \E d \in Drafts :
         /\ _validate_comment_quality(d, eng.post_title, eng.post_content).is_valid
         /\ ret' = [kind |-> "accepted", comment |-> d]
    /\ last' = ThisCall("accepted", 0)
    /\ pc' = "engine_done"
    /\ calls' = [calls EXCEPT !.gen = @ + 1]
    /\ UNCHANGED <<caller, req, fetched, post, api_key, route, frame, eng, gc, response>>

\* lines 579-631: the backend answers and the validator rejects the draft
AttemptRejected ==
    /\ pc = "attempt"
    /\ \E d \in Drafts :
         LET v == _validate_comment_quality(d, eng.post_title, eng.post_content)
             how == QualityDecision(v.reason, eng.attempt, eng.max_retries)
         IN /\ ~v.is_valid
            /\ last' = ThisCall("rejected", 0) @@ [reason |-> v.reason]
            /\ MoveTo(NextPosition(eng.model_idx, eng.attempt, eng.max_retries, how), "quality_failed")
    /\ calls' = [calls EXCEPT !.gen = @ + 1]
    /\ UNCHANGED <<caller, req, fetched, post, api_key, route, frame, gc, response>>

EngineNext == EngineNoApiKey \/ EngineStart \/ AttemptError \/ AttemptAccepted \/ AttemptRejected

----------------------------------------------------------------------------
(* comment_engine.py: the router and the strategies.                       *)

MAX_CONTENT_LEN == 5000
MAX_CHUNKS == 2
\* line 66 and line 72
LONG_CONTENT_LEN == 1500

\* the acknowledgment of lines 102 and 165
Acknowledgment ==
    <<CapW("thanks"), SP>> \o Ws(<<"for", "starting", "this", "discussion">>) \o <<BANG>>

\* faulty variant of Admitted: the limit is off by one
AdmittedOffByOne(content_len) == ~(content_len > MAX_CONTENT_LEN + 1)

\* line 48: the content passes the admission check
Admitted(content_len) == ~(content_len > MAX_CONTENT_LEN)

\* faulty variant of Route: the length is looked at before the platform
RouteByLengthFirst(platform, content_len) ==
    IF content_len >= LONG_CONTENT_LEN THEN "long_form"
    ELSE IF platform = "twitter" THEN "twitter"
    ELSE IF platform = "reddit" THEN "reddit"
    ELSE "lightweight"

\* faulty variant of Route: github posts never leave the lightweight strategy
RouteGithubLightweight(platform, content_len) ==
    IF platform = "twitter" THEN "twitter"
    ELSE IF platform = "reddit" THEN "reddit"
    ELSE IF platform = "github" THEN "lightweight"
    ELSE IF content_len >= LONG_CONTENT_LEN THEN "long_form"
    ELSE "lightweight"

\* lines 56-78: the strategy the router hands an admitted post to
Route(platform, content_len) ==
    IF platform = "twitter" THEN "twitter"
    ELSE IF platform = "reddit" THEN "reddit"
    ELSE IF platform = "github" /\ content_len < LONG_CONTENT_LEN THEN "lightweight"
    ELSE IF content_len >= LONG_CONTENT_LEN THEN "long_form"
    ELSE "lightweight"

\* faulty variant of NothingToSay: the blank post is not recognised
NeverNothingToSay(title, content) == FALSE

\* lines 101 and 164: `not title and not content`
NothingToSay(title, content) == title = <<>> /\ content = <<>>

\* a strategy returns `comment`
Return(comment) ==
    /\ gc' = [kind |-> "returned", comment |-> comment]
    /\ pc' = "gc_done"

\* a strategy calls generate_comment_with_gemini: lines 120-127, 175-181, 369-375
CallEngine(strategy, title, content, doc_facts, max_retries, context_ids) ==
    /\ eng' = [NoEng EXCEPT !.post_title = title, !.post_content = content,
                            !.doc_facts = doc_facts, !.max_retries = max_retries]
    /\ frame' = [strategy |-> strategy, context_ids |-> context_ids]
    /\ ret' = None
    /\ pc' = "engine_call"
    /\ gc' = gc

\* generate_reddit_comment, up to the call of the engine: lines 99-127
generate_reddit_comment(title, content) ==
    LET context_snippet_ids == get_relevant_context_snippets(content, title, 3)
    IN IF NothingToSay(title, content)
       THEN Return(Acknowledgment) /\ UNCHANGED <<eng, frame, ret>>
       ELSE CallEngine("reddit", title, content, context_snippet_ids, 2, context_snippet_ids)

\* generate_lightweight_comment, up to the call of the engine: lines 162-181
generate_lightweight_comment(title, content) ==
    LET context_ids == get_relevant_context_snippets(content, title, 2)
    IN IF NothingToSay(title, content)
       THEN Return(Acknowledgment) /\ UNCHANGED <<eng, frame, ret>>
       ELSE CallEngine("lightweight", title, content, context_ids, 1, context_ids)

\* what embed_chunked returns for two chunks at most: nothing when embedding
\* fails, else the chunks by decreasing score
EmbedOutcomes(chunks) ==
    {<<>>, chunks} \cup (IF Len(chunks) = 2 THEN {<<chunks[2], chunks[1]>>} ELSE {})

\* what search_by_name("docs") returns, as the ids the engine reads from it:
\* nothing when the search fails or the index is empty, else records that
\* carry neither "id" nor "title" (build_indexes.py stores chunk_id and text)
SearchOutcomes == {<<>>, <<"unknown">>}

----------------------------------------------------------------------------
(* The engine called on its own.                                           *)

MaxRetries == 2

EngineTitles == {<<>>, <<CapW("docker")>>}
EngineContents == {Ws(<<"great", "tool">>), Ws(<<"how", "to", "refactor", "errors">>) \o <<QM>>}

InitEngine ==
    /\ pc = "engine_call"
    /\ caller = "engine"
    /\ req = None
    /\ fetched = None
    /\ post = None
    /\ api_key \in BOOLEAN
    /\ route = "none"
    /\ frame = None
    /\ \E t \in EngineTitles, c \in EngineContents, r \in 0..MaxRetries :
           eng = [NoEng EXCEPT !.post_title = t, !.post_content = c, !.max_retries = r]
    /\ last = NoCall
    /\ calls = NoCalls
    /\ ret = None
    /\ gc = None
    /\ response = None

SpecEngine == InitEngine /\ [][EngineNext]_vars

----------------------------------------------------------------------------
(* The quality validator and the fallback synthesizer called on their own. *)

\* posts the drafts are validated against
ValidatorPosts ==
    { [title |-> <<>>, content |-> Ws(<<"great", "tool">>)],
      [title |-> <<CapW("docker")>>, content |-> Ws(<<"great", "tool">>)],
      [title |-> <<CapW("docker")>>, content |-> Ws(<<"how", "to", "refactor", "errors">>) \o <<QM>>],
      [title |-> <<>>, content |-> Ws(<<"about", "these", "errors">>)],
      [title |-> <<CapW("great"), SP, CapW("tools")>>, content |-> Ws(<<"to", "refactor">>)] }

\* how drafts open: words that posts hold or do not hold
DraftLeads ==
    { <<CapW("great"), SP, CapW("docker")>>,
      <<CapW("great"), SP, W("tools")>>,
      <<CapW("refactor"), SP, W("errors")>>,
      <<CapW("about"), SP, W("these"), SP, W("errors")>> }

\* how drafts name the brand, or do not
DraftBrands == { <<>>, <<SP, Cap("kilocode", 8)>>, <<SP, Tok("kilocode's", 10), SP, W("view")>> }

\* phrases drafts may hold: none, a forbidden one, a generic one, or both
DraftPhrases ==
    { <<>>,
      <<SP>> \o Ws(<<"great", "post">>),
      <<SP>> \o Ws(<<"analyze", "systematically">>),
      <<SP>> \o Ws(<<"great", "post">>) \o <<SP>> \o Ws(<<"analyze", "systematically">>) }

DraftLengths ==
    {MIN_COMMENT_LENGTH - 1, MIN_COMMENT_LENGTH, MAX_COMMENT_LENGTH, MAX_COMMENT_LENGTH + 1}
DraftSentences == {MIN_SENTENCES - 1, MIN_SENTENCES, MAX_SENTENCES, MAX_SENTENCES + 1}

RECURSIVE MoreSentences(_)
\* k further sentences "Yes"
MoreSentences(k) == IF k <= 0 THEN <<>> ELSE <<DOT, SP, CapW("yes")>> \o MoreSentences(k - 1)

\* the draft of the given length made of the lead, filler, the brand, the
\* phrase and as many sentences as asked
Draft(lead, brand, phrase, sentences, length) ==
    LET rest == lead \o <<SP>> \o brand \o phrase \o MoreSentences(sentences - 1) \o <<DOT>>
    IN lead \o <<SP, Tok("lorem", length - CharLen(rest))>> \o brand \o phrase
            \o MoreSentences(sentences - 1) \o <<DOT>>

ValidatorDrafts ==
    { Draft(l, b, p, s, n) :
        l \in DraftLeads, b \in DraftBrands, p \in DraftPhrases, s \in DraftSentences, n \in DraftLengths }

InitValidator ==
    /\ pc = "validate_call"
    /\ caller = "validator"
    /\ req = None
    /\ fetched = None
    /\ post = None
    /\ api_key = TRUE
    /\ route = "none"
    /\ frame = None
    /\ \E p \in ValidatorPosts :
           eng = [NoEng EXCEPT !.post_title = p.title, !.post_content = p.content]
    /\ last = NoCall
    /\ calls = NoCalls
    /\ \E d \in ValidatorDrafts : ret = [kind |-> "draft", comment |-> d]
    /\ gc = None
    /\ response = None

\* line 615: the validator is applied to the draft
Validate ==
    /\ pc = "validate_call"
    /\ ret' = [kind |-> "validated", comment |-> ret.comment,
               verdict |-> _validate_comment_quality(ret.comment, eng.post_title, eng.post_content)]
    /\ pc' = "validate_done"
    /\ UNCHANGED <<caller, req, fetched, post, api_key, route, frame, eng, last, calls, gc, response>>

SpecValidator == InitValidator /\ [][Validate]_vars

\* faulty variant of SynthesizerOutcomes: the text depends on more than the arguments
SynthesizerOutcomesUnstable(post_title, post_content, key_points, context_ids) ==
    {_generate_enhanced_fallback(post_title, post_content, key_points, context_ids), FbNuclear}

\* what a call of _generate_enhanced_fallback may return: the function reads
\* nothing but its arguments and module constants (no set is iterated, no
\* clock or random source is read), so there is one outcome
SynthesizerOutcomes(post_title, post_content, key_points, context_ids) ==
    {_generate_enhanced_fallback(post_title, post_content, key_points, context_ids)}

\* posts handed to the fallback synthesizer, the empty one included
FallbackPosts ==
    { [title |-> <<>>, content |-> <<>>],
      [title |-> <<>>, content |-> Ws(<<"why", "do", "many", "developers", "encounter", "this">>) \o <<QM>>],
      [title |-> <<>>, content |-> Ws(<<"need", "to", "clean", "code">>)],
      [title |-> <<>>, content |-> Ws(<<"debugging", "errors", "again">>)],
      [title |-> <<CapW("docker")>>, content |-> Ws(<<"great", "tool">>)],
      [title |-> <<CapW("docker")>>, content |-> Ws(<<"debugging", "errors", "again">>)],
      [title |-> <<CapW("docker")>>, content |-> Ws(<<"how", "to", "refactor", "errors">>) \o <<QM>>] }

\* key point lists, the empty one included: a question that holds a generic
\* phrase, a problem, and a question of more than 50 characters
FallbackKeyPoints ==
    { <<>>,
      << <<CapW("question"), Tok(":", 1), SP>>
         \o Ws(<<"why", "do", "many", "developers", "encounter", "this">>) \o <<QM>> >>,
      << <<CapW("problem"), Tok(":", 1), SP>> \o Ws(<<"debugging", "errors", "again">>),
         <<W("docker")>> >>,
      << <<CapW("question"), Tok(":", 1), SP>>
         \o Ws(<<"why", "is", "this", "function", "failing", "whenever", "many", "developers",
                 "encounter", "this">>) \o <<QM>> >> }

\* context id lists, the empty one included
FallbackContextIds ==
    { <<>>, <<"unknown">>, <<"core">>, <<"debugging", "core">>,
      <<"analysis", "debugging", "core">>, <<"unknown", "testing">> }

InitFallback ==
    /\ pc = "fallback_call"
    /\ caller = "synthesizer"
    /\ req = None
    /\ fetched = None
    /\ post = None
    /\ api_key \in BOOLEAN
    /\ route = "none"
    /\ frame = None
    /\ \E p \in FallbackPosts, kp \in FallbackKeyPoints, ids \in FallbackContextIds :
           eng = [NoEng EXCEPT !.post_title = p.title, !.post_content = p.content,
                               !.key_points = kp, !.context_snippets_used = ids]
    /\ last = NoCall
    /\ calls = NoCalls
    /\ ret = None
    /\ gc = None
    /\ response = None

\* _generate_enhanced_fallback is called
Synthesize ==
    /\ pc = "fallback_call"
    /\ \E r \in SynthesizerOutcomes(eng.post_title, eng.post_content, eng.key_points,
                                    eng.context_snippets_used) :
           ret' = [kind |-> "fallback", comment |-> r]
    /\ pc' = "fallback_done"
    /\ UNCHANGED <<caller, req, fetched, post, api_key, route, frame, eng, last, calls, gc, response>>

\* _generate_enhanced_fallback is called again with the same arguments
SynthesizeAgain ==
    /\ pc = "fallback_done"
    /\ \E r \in SynthesizerOutcomes(eng.post_title, eng.post_content, eng.key_points,
                                    eng.context_snippets_used) :
           ret' = [kind |-> "fallback_again", comment |-> r, first |-> ret.comment]
    /\ pc' = "fallback_again_done"
    /\ UNCHANGED <<caller, req, fetched, post, api_key, route, frame, eng, last, calls, gc, response>>

FallbackNext == Synthesize \/ SynthesizeAgain

SpecFallback == InitFallback /\ [][FallbackNext]_vars

\* the engine and the synthesizer, each called on its own
InitEngineOrFallback == InitEngine \/ InitFallback
SpecEngineOrFallback == InitEngineOrFallback /\ [][EngineNext \/ FallbackNext]_vars

----------------------------------------------------------------------------
(* comment_engine.py: generate_comment.                                    *)

\* post.content.strip(), post.title.strip(), len(content)
content == Strip(post.content)
title == Strip(post.title)
content_len == CharLen(content)

\* lines 48-53: the content is too long
Reject ==
    /\ pc = "generate"
    /\ ~Admitted(content_len)
    /\ gc' = [kind |-> "raised", status_code |-> 413]
    /\ pc' = "gc_done"
    /\ UNCHANGED <<caller, req, fetched, post, api_key, route, frame, eng, last, calls, ret, response>>

\* lines 56-58 and generate_twitter_comment
RouteTwitter ==
    /\ pc = "generate"
    /\ Admitted(content_len)
    /\ Route(post.platform, content_len) = "twitter"
    /\ route' = "twitter"
    /\ Return(generate_twitter_comment(post.content))
    /\ UNCHANGED <<caller, req, fetched, post, api_key, frame, eng, last, calls, ret, response>>

\* lines 61-63 and generate_reddit_comment
RouteReddit ==
    /\ pc = "generate"
    /\ Admitted(content_len)
    /\ Route(post.platform, content_len) = "reddit"
    /\ route' = "reddit"
    /\ generate_reddit_comment(title, content)
    /\ UNCHANGED <<caller, req, fetched, post, api_key, last, calls, response>>

\* lines 66-68, 76-78 and generate_lightweight_comment
RouteLightweight ==
    /\ pc = "generate"
    /\ Admitted(content_len)
    /\ Route(post.platform, content_len) = "lightweight"
    /\ route' = "lightweight"
    /\ generate_lightweight_comment(title, content)
    /\ UNCHANGED <<caller, req, fetched, post, api_key, last, calls, response>>

\* faulty variant of RouteLongForm: the indexes are searched whatever the
\* fetch status
RouteLongFormSearchesAnyStatus ==
    /\ pc = "generate"
    /\ Admitted(content_len)
    /\ Route(post.platform, content_len) = "long_form"
    /\ route' = "long_form"
    /\ LET cleaned_content == clean_text(content, MAX_CONTENT_LEN)
           all_chunks == chunk_text(cleaned_content, 1000, 150, 8)
           chunks == IF Len(all_chunks) > MAX_CHUNKS THEN SubSeq(all_chunks, 1, MAX_CHUNKS)
                     ELSE all_chunks
       IN IF chunks = <<>>
          THEN /\ generate_lightweight_comment(title, Take(content, 500))
               /\ calls' = calls
          ELSE \E top_chunks \in EmbedOutcomes(chunks) :
               \E doc_facts \in (IF top_chunks # <<>> THEN SearchOutcomes ELSE {<<>>}) :
                  /\ calls' = [calls EXCEPT
                                 !.embed = @ + 1,
                                 !.search = IF top_chunks # <<>> THEN @ + 2 ELSE @]
                  /\ CallEngine("long_form", title, Take(JoinSp(top_chunks), 1500),
                                doc_facts, 1, <<>>)
    /\ UNCHANGED <<caller, req, fetched, post, api_key, last, response>>

\* lines 72-74 and generate_long_form_comment up to the call of the engine
\* (lines 312-375)
RouteLongForm ==
    /\ pc = "generate"
    /\ Admitted(content_len)
    /\ Route(post.platform, content_len) = "long_form"
    /\ route' = "long_form"
    /\ LET cleaned_content == clean_text(content, MAX_CONTENT_LEN)
           all_chunks == chunk_text(cleaned_content, 1000, 150, 8)
           chunks == IF Len(all_chunks) > MAX_CHUNKS THEN SubSeq(all_chunks, 1, MAX_CHUNKS)
                     ELSE all_chunks
       IN IF chunks = <<>>
          THEN /\ generate_lightweight_comment(title, Take(content, 500))
               /\ calls' = calls
          ELSE \E top_chunks \in EmbedOutcomes(chunks) :
               \E doc_facts \in (IF post.fetch_status = "success" /\ top_chunks # <<>>
                                 THEN SearchOutcomes ELSE {<<>>}) :
                  /\ calls' = [calls EXCEPT
                                 !.embed = @ + 1,
                                 !.search = IF post.fetch_status = "success" /\ top_chunks # <<>>
                                            THEN @ + 2 ELSE @]
                  /\ CallEngine("long_form", title, Take(JoinSp(top_chunks), 1500),
                                doc_facts, 1, <<>>)
    /\ UNCHANGED <<caller, req, fetched, post, api_key, last, response>>

\* lines 146, 197, 394: the engine returned a comment and the strategy returns it
StrategyReturn ==
    /\ pc = "engine_done"
    /\ caller # "engine"
    /\ ret.kind \in {"accepted", "fallback"}
    /\ Return(ret.comment)
    /\ UNCHANGED <<caller, req, fetched, post, api_key, route, frame, eng, last, calls, ret, response>>

\* lines 148-153 and 198-203: the engine raised under the reddit or the
\* lightweight strategy
StrategyExcept ==
    /\ pc = "engine_done"
    /\ caller # "engine"
    /\ ret.kind = "raised"
    /\ frame.strategy \in {"reddit", "lightweight"}
    /\ \E key_points \in _extract_key_points(eng.post_title, eng.post_content) :
           Return(_generate_enhanced_fallback(eng.post_title, eng.post_content, key_points,
                                              frame.context_ids))
    /\ UNCHANGED <<caller, req, fetched, post, api_key, route, frame, eng, last, calls, ret, response>>

\* lines 396-404: the engine raised under the long-form strategy
LongFormExcept ==
    /\ pc = "engine_done"
    /\ caller # "engine"
    /\ ret.kind = "raised"
    /\ frame.strategy = "long_form"
    /\ generate_lightweight_comment(title, Take(content, 500))
    /\ UNCHANGED <<caller, req, fetched, post, api_key, route, last, calls, response>>

GenerateNext ==
    \/ Reject \/ RouteTwitter \/ RouteReddit \/ RouteLightweight \/ RouteLongForm
    \/ StrategyReturn \/ StrategyExcept \/ LongFormExcept

----------------------------------------------------------------------------
(* app.py: the /ml/generate-comment endpoint.                              *)

\* the markers detect_platform looks for that a URL holds
UrlSubs(url) ==
    CASE url = "netflix.com" -> {"netflix.com", "x.com"}
      [] OTHER -> {url}

\* detect_platform
detect_platform(url) ==
    IF UrlSubs(url) \cap {"twitter.com", "x.com"} # {} THEN "twitter"
    ELSE IF "reddit.com" \in UrlSubs(url) THEN "reddit"
    ELSE IF "github.com" \in UrlSubs(url) THEN "github"
    ELSE IF "news.ycombinator.com" \in UrlSubs(url) THEN "hackernews"
    ELSE IF UrlSubs(url) \cap {"youtube.com", "youtu.be"} # {} THEN "youtube"
    ELSE IF "substack.com" \in UrlSubs(url) THEN "substack"
    ELSE "reddit"

\* generate_safe_fallback
generate_safe_fallback(platform) ==
    IF platform = "twitter"
    THEN <<CapW("thanks"), SP>> \o Ws(<<"for", "sharing", "this">>) \o <<BANG>>
    ELSE <<CapW("this"), SP>> \o Ws(<<"is", "an", "interesting", "discussion">>)
         \o <<DOT, SP, CapW("thanks"), SP>> \o Ws(<<"for", "starting", "this", "thread">>)
         \o <<BANG>>

\* lines 147-150
Placeholder ==
    <<CapW("this"), SP>> \o Ws(<<"is", "a", "placeholder", "response">>)
    \o <<DOT, SP, CapW("the"), SP, W("/docs"), SP, CapW("ui"), SP>>
    \o Ws(<<"is", "for", "testing", "only">>) \o <<DOT, SP, CapW("production"), SP>>
    \o Ws(<<"calls", "use", "'source=api'", "and", "run", "the", "full">>)
    \o <<SP, CapW("ml"), SP, W("pipeline"), DOT>>

Answer(status_code, comment) ==
    /\ response' = [status_code |-> status_code, comment |-> comment]
    /\ pc' = "done"

\* lines 145-150: a call from the /docs page
DocsCall ==
    /\ pc = "request"
    /\ req.source = "docs"
    /\ Answer(200, Placeholder)
    /\ UNCHANGED <<caller, req, fetched, post, api_key, route, frame, eng, last, calls, ret, gc>>

\* titles and texts a page yields
FetchedTitles == {<<>>, <<CapW("docker")>>, <<CapW("great"), SP, CapW("docker")>>}
FetchedTexts ==
    { Ws(<<"how", "to", "refactor", "errors">>) \o <<QM>>,
      <<Cap("lorem", LONG_CONTENT_LEN)>>,
      <<Cap("lorem", MAX_CONTENT_LEN + 1)>> }

\* what fetch_post_content returns (fetchers.py, lines 11-98); title_is_str
\* is false when the page's JSON-LD gives a list as its headline, which
\* extract_reddit_title hands back as it is (lines 187-197)
FetchResults(url) ==
    { [text |-> <<>>, title |-> <<>>, fetch_status |-> st, title_is_str |-> TRUE] :
        st \in {"blocked", "http_error", "timeout", "error"} }
    \cup { [text |-> <<>>, title |-> t, fetch_status |-> "empty", title_is_str |-> TRUE] :
             t \in FetchedTitles }
    \cup { [text |-> x, title |-> t, fetch_status |-> "success", title_is_str |-> TRUE] :
             x \in FetchedTexts, t \in FetchedTitles }
    \cup (IF "reddit.com" \in UrlSubs(url)
          THEN { [text |-> x, title |-> <<>>, fetch_status |-> st, title_is_str |-> FALSE] :
                    x \in {<<>>}, st \in {"empty"} }
               \cup { [text |-> x, title |-> <<>>, fetch_status |-> "success",
                       title_is_str |-> FALSE] : x \in FetchedTexts }
          ELSE {})

\* lines 158-166: detect_platform and fetch_post_content
Fetch ==
    /\ pc = "request"
    /\ req.source # "docs"
    /\ fetched' \in FetchResults(req.url)
    /\ pc' = "fetched"
    /\ UNCHANGED <<caller, req, post, api_key, route, frame, eng, last, calls, ret, gc, response>>

\* lines 171-177: NormalizedPost(...) validates its fields
BuildPost ==
    /\ pc = "fetched"
    /\ fetched.title_is_str
    /\ post' = [platform |-> detect_platform(req.url), title |-> fetched.title,
                content |-> fetched.text, fetch_status |-> fetched.fetch_status]
    /\ pc' = "generate"
    /\ UNCHANGED <<caller, req, fetched, api_key, route, frame, eng, last, calls, ret, gc, response>>

\* lines 171-177 and 223-233: the validation fails and the outer handler
\* answers with HTTPException(500)
BuildPostFails ==
    /\ pc = "fetched"
    /\ ~fetched.title_is_str
    /\ Answer(500, <<>>)
    /\ UNCHANGED <<caller, req, fetched, post, api_key, route, frame, eng, last, calls, ret, gc>>

\* lines 193-204: generate_comment returned
Respond ==
    /\ pc = "gc_done"
    /\ caller = "endpoint"
    /\ gc.kind = "returned"
    /\ Answer(200, gc.comment)
    /\ UNCHANGED <<caller, req, fetched, post, api_key, route, frame, eng, last, calls, ret, gc>>

\* lines 206-218: generate_comment raised; HTTPException is an Exception, and
\* the inner handler answers with the safe fallback
RespondCaught ==
    /\ pc = "gc_done"
    /\ caller = "endpoint"
    /\ gc.kind = "raised"
    /\ Answer(200, generate_safe_fallback(post.platform))
    /\ UNCHANGED <<caller, req, fetched, post, api_key, route, frame, eng, last, calls, ret, gc>>

EndpointNext == DocsCall \/ Fetch \/ BuildPost \/ BuildPostFails \/ Respond \/ RespondCaught

----------------------------------------------------------------------------
(* The pipeline: requests to the endpoint and direct calls of              *)
(* generate_comment.                                                       *)

MaxWords == 2

Platforms == {"twitter", "reddit", "github", "hackernews", "youtube", "substack"}
Urls == {"twitter.com", "netflix.com", "reddit.com", "github.com", "youtu.be", "example.com"}

\* the words of a tweet
TweetWords ==
    { <<W("great")>>, <<W("the")>>, <<W("new")>>, <<W("vs")>>, <<QM>>, <<Tok("@bob", 4)>>,
      <<Tok("http://t.co/x", 13)>>, <<Cap("lorem", MAX_COMMENT_LENGTH)>> }

\* tweets of MaxWords words at most
Tweets ==
    {<<>>} \cup UNION { {JoinSp(ws) : ws \in [1..n -> TweetWords]} : n \in 1..MaxWords }

\* longer posts: around the long-content threshold and around the admission limit
Articles ==
    { <<>>, <<SP>>, Ws(<<"great", "tool">>),
      <<Cap("lorem", LONG_CONTENT_LEN - 1)>>,
      <<Tok("<cjk>", LONG_CONTENT_LEN)>>,
      <<Cap("lorem", MAX_CONTENT_LEN), SP>>,
      <<SP, Cap("lorem", MAX_CONTENT_LEN + 1)>> }

Titles == {<<>>, <<SP, CapW("docker")>>}

Contents(platform) == Articles \cup (IF platform = "twitter" THEN Tweets ELSE {})

\* the posts generate_comment is called with directly: every platform with
\* every title and content after a successful fetch; after a failed fetch, the
\* posts of the strategies that are handed fetch_status; and the blank posts
DirectPosts ==
    UNION { { [platform |-> p, title |-> t, content |-> c, fetch_status |-> "success"] :
                t \in Titles, c \in Contents(p) }
            \cup { [platform |-> p, title |-> t, content |-> c, fetch_status |-> "timeout"] :
                     t \in Titles,
                     c \in {x \in Contents(p) : p = "twitter" \/ CharLen(Strip(x)) >= LONG_CONTENT_LEN} }
            \cup { [platform |-> p, title |-> <<SP>>, content |-> c, fetch_status |-> "success"] :
                     c \in {<<>>, <<SP>>} }
            : p \in Platforms }

Requests == { [source |-> s, url |-> u] : s \in {"api", "docs"}, u \in Urls }

Init ==
    /\ caller \in {"endpoint", "direct"}
    /\ api_key \in BOOLEAN
    /\ IF caller = "endpoint"
       THEN pc = "request" /\ req \in Requests /\ post = None
       ELSE pc = "generate" /\ req = None /\ post \in DirectPosts
    /\ fetched = None
    /\ route = "none"
    /\ frame = None
    /\ eng = NoEng
    /\ last = NoCall
    /\ calls = NoCalls
    /\ ret = None
    /\ gc = None
    /\ response = None

Next == EndpointNext \/ GenerateNext \/ EngineNext

Spec == Init /\ [][Next]_vars

----------------------------------------------------------------------------
(* generate_comment called with posts about debugging.                     *)

DebuggingTexts ==
    { Ws(<<"debugging", "errors", "again">>),
      Ws(<<"debugging", "errors", "review">>),
      Ws(<<"why", "do", "many", "developers", "encounter", "debugging", "errors">>) \o <<QM>> }

\* posts that mention "debugging" and "error" for every strategy, one that
\* does not, and one that is too long to be admitted
DebuggingPosts ==
    { [platform |-> p, title |-> <<>>, content |-> c, fetch_status |-> "success"] :
          p \in {"reddit", "github"}, c \in DebuggingTexts }
    \cup
    { [platform |-> "hackernews", title |-> <<CapW("docker")>>,
       content |-> Ws(<<"debugging", "errors", "again">>), fetch_status |-> "success"],
      [platform |-> "twitter", title |-> <<>>,
       content |-> Ws(<<"debugging", "errors", "again">>), fetch_status |-> "success"],
      [platform |-> "github", title |-> <<>>,
       content |-> <<Cap("lorem", LONG_CONTENT_LEN), SP>> \o Ws(<<"debugging", "errors", "again">>),
       fetch_status |-> "success"],
      [platform |-> "reddit", title |-> <<CapW("docker")>>,
       content |-> Ws(<<"great", "tool">>), fetch_status |-> "success"],
      [platform |-> "substack", title |-> <<>>,
       content |-> <<Cap("lorem", MAX_CONTENT_LEN + 1)>>, fetch_status |-> "success"] }

InitDebugging ==
    /\ caller = "direct"
    /\ api_key \in BOOLEAN
    /\ pc = "generate"
    /\ req = None
    /\ post \in DebuggingPosts
    /\ fetched = None
    /\ route = "none"
    /\ frame = None
    /\ eng = NoEng
    /\ last = NoCall
    /\ calls = NoCalls
    /\ ret = None
    /\ gc = None
    /\ response = None

SpecDebugging == InitDebugging /\ [][GenerateNext \/ EngineNext]_vars

----------------------------------------------------------------------------
(* Properties of the pipeline (Spec).                                      *)

\* generate_comment has been called with a post
Called == post # None

\* C1: a post whose stripped content is longer than MAX_CONTENT_LEN is
\* rejected with 413 by generate_comment, on every platform, and no
\* generative, embedding or index-search call is issued before or after.
C1_TooLargeIsRejectedWithoutCalls ==
    (Called /\ content_len > MAX_CONTENT_LEN) =>
        /\ calls = NoCalls
        /\ route = "none"
        /\ pc \in {"generate", "gc_done", "done"}
        /\ pc # "generate" => gc = [kind |-> "raised", status_code |-> 413]

C1_Witness ==
    /\ Called
    /\ post.platform = "twitter"
    /\ content_len > MAX_CONTENT_LEN
    /\ gc = [kind |-> "raised", status_code |-> 413]

\* C2: when generate_comment rejects a post as too large, the endpoint
\* answers 413 and never 200 with a comment.
C2_RejectionReachesTheCaller ==
    (caller = "endpoint" /\ pc = "done" /\ gc.kind = "raised") => response.status_code = 413

\* C3: the endpoint never answers with a 5xx status: every answer is a 200
\* or the 413 rejection.
C3_NeverServerError ==
    response # None => response.status_code \in {200, 413}

\* C4: for a post whose stripped content is not longer than MAX_CONTENT_LEN,
\* generate_comment never raises, whatever the backends do: what the engine
\* raises is caught by the strategy that called it, and the comment that
\* generate_comment returns is not empty.
C4_AdmittedPostGetsAComment ==
    (Called /\ content_len <= MAX_CONTENT_LEN) =>
        /\ gc.kind # "raised"
        /\ pc = "engine_done" =>
              /\ ret.kind \in {"accepted", "fallback", "raised"}
              /\ frame.strategy \in {"reddit", "lightweight", "long_form"}
        /\ pc \in {"gc_done", "done"} => (gc.kind = "returned" /\ CharLen(gc.comment) > 0)

C4_Witness ==
    /\ Called
    /\ ~api_key
    /\ route = "long_form"
    /\ frame # None /\ frame.strategy = "lightweight"
    /\ gc.kind = "returned"
    /\ CharLen(gc.comment) > 0

\* C5: every comment generate_comment returns is at most MAX_COMMENT_LENGTH
\* characters long.
C5_CommentWithinMaximum ==
    gc.kind = "returned" => CharLen(gc.comment) <= MAX_COMMENT_LENGTH

\* C6: for a twitter post generate_comment never calls the embedder and never
\* searches or loads an index.
C6_TwitterNeverEmbedsOrSearches ==
    (Called /\ post.platform = "twitter") => (calls.embed = 0 /\ calls.search = 0)

C6_Witness ==
    /\ Called
    /\ post.platform = "twitter"
    /\ content_len >= LONG_CONTENT_LEN
    /\ post.fetch_status = "success"
    /\ gc.kind = "returned"

\* C7, as stated: on every platform other than twitter an admitted post of
\* LONG_CONTENT_LEN characters or more is routed to the long-form strategy.
C7_NonTwitterLongIsLongForm ==
    (Called /\ post.platform # "twitter" /\ route # "none" /\ content_len >= LONG_CONTENT_LEN)
        => route = "long_form"

\* C7, amended: on every platform other than twitter and reddit an admitted
\* post of LONG_CONTENT_LEN characters or more is routed to the long-form
\* strategy; a reddit post of that length is routed to the reddit strategy.
C7_NonTwitterNonRedditLongIsLongForm ==
    (Called /\ route # "none" /\ content_len >= LONG_CONTENT_LEN) =>
        /\ post.platform \notin {"twitter", "reddit"} => route = "long_form"
        /\ post.platform = "reddit" => (route = "reddit" /\ calls.embed = 0 /\ calls.search = 0)

C7_Witness ==
    /\ Called
    /\ post.platform = "github"
    /\ content_len >= LONG_CONTENT_LEN
    /\ route = "long_form"
    /\ calls.embed = 1
    /\ calls.search = 2

\* C8: on every platform a post whose stripped title and content are both
\* empty gets the platform's fixed acknowledgment, and no generative,
\* embedding or index-search call is made for it.
C8_BlankPostIsAcknowledged ==
    LET thanks == <<CapW("thanks"), SP>> \o Ws(<<"for", "starting", "this", "discussion">>) \o <<BANG>>
        interesting ==
            <<CapW("interesting"), BANG, SP, CapW("thanks"), SP>> \o Ws(<<"for", "sharing">>) \o <<DOT>>
    IN (Called /\ title = <<>> /\ content = <<>>) =>
          /\ calls = NoCalls
          /\ pc \in {"generate", "gc_done", "done"}
          /\ pc # "generate" =>
                gc = [kind |-> "returned",
                      comment |-> IF post.platform = "twitter" THEN interesting ELSE thanks]

C8_Witness ==
    /\ Called
    /\ post.platform = "github"
    /\ post.title = <<SP>> /\ post.content = <<SP>>
    /\ gc.kind = "returned"

----------------------------------------------------------------------------
(* Properties of the engine called on its own (SpecEngine).                *)

\* the engine stands before its attempt number `attempt` on model `model_idx`
Before(model_idx, attempt) ==
    pc = "attempt" /\ eng.model_idx = model_idx /\ eng.attempt = attempt

\* the engine has left its loops for the fallback
Exhausted == pc = "engine_done" /\ ret.kind = "fallback"

\* C9: after a config error the engine makes no further attempt on that
\* model: its next call is attempt 0 on the next model, with all the
\* max_retries + 1 attempts ahead of it, or the chain is exhausted; and if
\* every call raised a config error there was exactly one call per model.
C9_ConfigErrorSkipsToNextModel ==
    /\ pc = "attempt" => eng.attempt <= eng.max_retries
    /\ last.outcome = "config_error" =>
          IF last.model_idx + 1 < Len(models_to_try)
          THEN Before(last.model_idx + 1, 0)
          ELSE Exhausted
    /\ (last.outcome = "config_error" /\ last.only_config) => calls.gen = last.model_idx + 1
    /\ (Exhausted /\ last.only_config) => calls.gen = Len(models_to_try)

C9_Witness ==
    /\ Exhausted
    /\ last.only_config
    /\ last.outcome = "config_error"
    /\ eng.max_retries = MaxRetries
    /\ calls.gen = Len(models_to_try)

\* C10: a transient error on attempt a of a model is followed, when
\* a < max_retries, by attempt a + 1 on the same model after a wait of
\* 500 ms * 2^a; when a = max_retries it is followed without a wait by
\* attempt 0 on the next model, or by exhaustion when there is none.
C10_TransientErrorBacksOff ==
    last.outcome = "transient_error" =>
        IF last.attempt < eng.max_retries
        THEN /\ Before(last.model_idx, last.attempt + 1)
             /\ last.wait = 500 * (2 ^ last.attempt)
        ELSE /\ last.attempt = eng.max_retries
             /\ last.wait = 0
             /\ IF last.model_idx + 1 < Len(models_to_try)
                THEN Before(last.model_idx + 1, 0)
                ELSE Exhausted

C10_Witness ==
    /\ last.outcome = "transient_error"
    /\ last.attempt = 1
    /\ last.wait = 1000
    /\ Before(last.model_idx, 2)

\* C11: an unknown error causes at most one retry per model: only an unknown
\* error on attempt 0 is followed by another attempt on the same model, which
\* is attempt 1 (when max_retries allows one); an unknown error on any later
\* attempt is followed by attempt 0 on the next model, or by exhaustion,
\* even if attempts remain on the model.
C11_UnknownErrorRetriesOnce ==
    last.outcome = "unknown_error" =>
        IF last.attempt < 1 /\ last.attempt < eng.max_retries
        THEN Before(last.model_idx, 1)
        ELSE IF last.model_idx + 1 < Len(models_to_try)
             THEN Before(last.model_idx + 1, 0)
             ELSE Exhausted

C11_Witness ==
    /\ last.outcome = "unknown_error"
    /\ last.attempt = 1
    /\ eng.max_retries = MaxRetries
    /\ last.attempt < eng.max_retries
    /\ Before(last.model_idx + 1, 0)

\* where the engine stands after a rejected draft, and what it may return
C12_RejectedStateInv ==
    /\ last.outcome = "rejected" =>
          /\ eng.last_error_type = "quality_failed"
          /\ ret.kind # "accepted"
          /\ IF last.attempt < eng.max_retries
             THEN Before(last.model_idx, last.attempt + 1)
             ELSE /\ last.attempt = eng.max_retries
                  /\ IF last.model_idx + 1 < Len(models_to_try)
                     THEN Before(last.model_idx + 1, 0)
                     ELSE Exhausted
    /\ (pc = "engine_done" /\ ret.kind = "accepted") =>
          /\ last.outcome = "accepted"
          /\ _validate_comment_quality(ret.comment, eng.post_title, eng.post_content).is_valid

\* the call the engine issues after a rejected draft
C12_CallAfterRejection ==
    (last.outcome = "rejected" /\ last' # last) =>
        IF last.attempt < eng.max_retries
        THEN /\ last'.model_idx = last.model_idx
             /\ last'.attempt = last.attempt + 1
             /\ last'.is_retry
             /\ last'.retry_reason = "too generic"
        ELSE /\ last'.model_idx = last.model_idx + 1
             /\ last'.attempt = 0
             /\ ~last'.is_retry
             /\ last'.retry_reason = ""

\* C12: a draft the validator rejects on attempt a of a model is followed,
\* when a < max_retries, by attempt a + 1 on the same model, built with the
\* retry prompt (is_retry true, with the retry reason); when a = max_retries
\* it is followed by attempt 0 on the next model, a first attempt without the
\* retry prompt, or by exhaustion; and what the engine returns as accepted
\* passed the validator, so a rejected draft is never returned.
C12_RejectedDraftIsRetried == []C12_RejectedStateInv /\ [][C12_CallAfterRejection]_vars

C12_Witness ==
    /\ last.outcome = "rejected"
    /\ last.is_retry
    /\ last.retry_reason = "too generic"
    /\ last.attempt = eng.max_retries
    /\ eng.max_retries = MaxRetries
    /\ Before(last.model_idx + 1, 0)

\* how generate_comment_with_gemini may have ended
C13_TerminalStateInv ==
    pc = "engine_done" =>
        /\ ret.kind \in {"accepted", "fallback", "raised"}
        /\ api_key => ret.kind \in {"accepted", "fallback"}
        /\ ret.kind = "raised" => (~api_key /\ ret.error = "ValueError" /\ calls.gen = 0)
        /\ ret.kind = "accepted" =>
              /\ last.outcome = "accepted"
              /\ _validate_comment_quality(ret.comment, eng.post_title, eng.post_content).is_valid
        /\ ret.kind = "fallback" =>
              /\ ret.comment = _generate_enhanced_fallback(eng.post_title, eng.post_content,
                                                           eng.key_points, eng.context_snippets_used)
              /\ last.model_idx = Len(models_to_try) - 1
              /\ last.outcome # "accepted"
              /\ \/ last.outcome = "config_error"
                 \/ last.outcome = "unknown_error" /\ last.attempt >= 1
                 \/ last.attempt = eng.max_retries
              /\ calls.gen >= Len(models_to_try)

\* the engine leaves a model only when it abandons it or has used all its
\* attempts, takes the models in order, and calls nothing after it has ended
C13_ModelOrder ==
    /\ (pc = "attempt" /\ pc' = "attempt") =>
          \/ eng'.model_idx = eng.model_idx /\ eng'.attempt = eng.attempt + 1
          \/ /\ eng'.model_idx = eng.model_idx + 1
             /\ eng'.attempt = 0
             /\ \/ last'.outcome = "config_error"
                \/ last'.outcome = "unknown_error" /\ last'.attempt >= 1
                \/ last'.attempt = eng.max_retries
    /\ pc = "engine_done" => calls' = calls

\* C13 (as amended): with an API key configured generate_comment_with_gemini
\* ends in one of two ways: it returns the first draft that passes the
\* validator, that call being its last backend call, or, only after every
\* model of the chain was abandoned or used all its attempts, it returns
\* the output of the fallback synthesizer; with no API key it ends in a
\* third way, raising ValueError before any backend call.
C13_TerminalOutcomes == []C13_TerminalStateInv /\ [][C13_ModelOrder]_vars

\* C13 as stated: the engine ends with an accepted draft or with the fallback
C13_ExactlyTwoOutcomes ==
    pc = "engine_done" => ret.kind \in {"accepted", "fallback"}

C13_Witness ==
    /\ pc = "engine_done"
    /\ ret.kind = "accepted"
    /\ last.model_idx = Len(models_to_try) - 1
    /\ last.attempt = 1
    /\ calls.gen = 4

\* the number of generative backend calls never exceeds
\* (models in the chain) x (max_retries + 1), 3 x (max_retries + 1) here
C14_CallBound ==
    /\ calls.gen <= Len(models_to_try) * (eng.max_retries + 1)
    /\ calls.gen <= 3 * (eng.max_retries + 1)
    /\ (pc = "attempt") =>
          calls.gen <= eng.model_idx * (eng.max_retries + 1) + eng.attempt

\* the calls generate_comment_with_gemini may still issue: what the two
\* loops have ahead of them
C14_CallsAhead ==
    IF pc = "engine_call" THEN Len(models_to_try) * (eng.max_retries + 1)
    ELSE IF pc = "attempt"
         THEN Len(models_to_try) * (eng.max_retries + 1)
                  - (eng.model_idx * (eng.max_retries + 1) + eng.attempt)
    ELSE 0

\* every backend call uses up at least one of the calls ahead, and the
\* engine has ended when none is left
C14_CallUsesBudget ==
    /\ calls'.gen \in {calls.gen, calls.gen + 1}
    /\ calls'.gen = calls.gen + 1 =>
          (C14_CallsAhead' < C14_CallsAhead /\ C14_CallsAhead' >= 0)
    /\ C14_CallsAhead' <= C14_CallsAhead

\* C14: generate_comment_with_gemini terminates after at most
\* (number of models in the chain) x (max_retries + 1) generative backend
\* calls, at most 3 x (max_retries + 1) with the default chain: the count
\* of calls stays within that bound, every call strictly lowers the number
\* of calls still ahead, and no call is ahead once the engine has ended.
C14_TerminatesWithinCallBound == []C14_CallBound /\ [][C14_CallUsesBudget]_vars

C14_Witness ==
    /\ Exhausted
    /\ eng.max_retries = MaxRetries
    /\ calls.gen = Len(models_to_try) * (MaxRetries + 1)

\* C15 (as amended): with GEMINI_API_KEY set generate_comment_with_gemini
\* never raises to its caller: for every input and every backend failure
\* it returns a string, an accepted draft or the exhaustion fallback, and a
\* call the backend fails is followed by the next attempt or by that
\* fallback; with GEMINI_API_KEY unset it raises ValueError.
C15_RaisesOnlyWithoutApiKey ==
    /\ last.outcome \in {"config_error", "transient_error", "unknown_error"} =>
          (pc = "attempt" \/ Exhausted)
    /\ last.outcome # "raised"
    /\ pc = "engine_done" =>
          IF api_key
          THEN /\ ret.kind \in {"accepted", "fallback"}
               /\ ret.kind = "fallback" => CharLen(ret.comment) > 0
          ELSE ret = [kind |-> "raised", error |-> "ValueError"]

\* C15 as stated: the engine never raises
C15_NeverRaises == ret.kind # "raised"

C15_Witness ==
    /\ api_key
    /\ Exhausted
    /\ last.outcome = "unknown_error"
    /\ ~last.only_config
    /\ CharLen(ret.comment) > 0

\* the content words of a text: its words of five characters or more, in
\* lower case, that are no stop words
C16_ContentWordsOf(text) ==
    {text[i].w : i \in {j \in 1..Len(text) : IsWord(text[j]) /\ text[j].n >= 5}} \ CommonWords

\* C16: whenever _validate_comment_quality returns is_valid = true, the draft
\* has a length in [200, 800] and 2 to 5 sentences, contains the brand term
\* "kilocode" in whatever case, contains no forbidden phrase and no generic
\* phrase, and shares at least 2 content words (five characters or more,
\* lower-cased, stop words left out) with the post title plus content.
C16_ValidDraftMeetsEveryRule ==
    (pc = "validate_done" /\ ret.verdict.is_valid) =>
        LET d == ret.comment
            text == eng.post_title \o <<SP>> \o eng.post_content
        IN /\ CharLen(d) >= 200 /\ CharLen(d) <= 800
           /\ _count_sentences(d) >= 2 /\ _count_sentences(d) <= 5
           /\ \E i \in 1..Len(d) : "kilocode" \in Subs(d[i].w)
           /\ \A ph \in FORBIDDEN_PHRASES : ~Contains(d, ph)
           /\ \A ph \in GENERIC_PHRASES : ~Contains(d, ph)
           /\ Cardinality(C16_ContentWordsOf(text) \cap C16_ContentWordsOf(d)) >= 2
           /\ ret.verdict.reason = "valid"

C16_Witness ==
    /\ pc = "validate_done"
    /\ ret.verdict.is_valid
    /\ CharLen(ret.comment) = MAX_COMMENT_LENGTH
    /\ _count_sentences(ret.comment) = MAX_SENTENCES
    /\ ret.verdict.details.overlap_count = 2
    /\ Contains(ret.comment, <<"kilocode's">>)

\* _generate_enhanced_fallback has returned
Synthesized == pc \in {"fallback_done", "fallback_again_done"}

\* C17: the text _generate_enhanced_fallback returns contains none of the
\* GENERIC_PHRASES, in whatever case, also when the text it built first
\* contained one and the substitute sentence is returned instead.
C17_FallbackHoldsNoGenericPhrase ==
    Synthesized => \A ph \in GENERIC_PHRASES : ~Contains(Lower(ret.comment), ph)

C17_Witness ==
    /\ pc = "fallback_done"
    /\ eng.key_points # <<>>
    /\ Contains(eng.key_points[1], <<"many", " ", "developers", " ", "encounter">>)
    /\ ret.comment = FbNuclear

C19_ReturnedTextNamesTheBrand ==
    /\ Synthesized => HasSub(Lower(ret.comment), "kilocode")
    /\ (pc = "engine_done" /\ ret.kind \in {"accepted", "fallback"}) =>
          HasSub(Lower(ret.comment), "kilocode")

C19_Witness ==
    /\ Exhausted
    /\ caller = "engine"
    /\ eng.post_title = <<>>
    /\ Contains(ret.comment, <<"kilocode's">>)

----------------------------------------------------------------------------
(* Properties of the posts about debugging (SpecDebugging).                *)

\* the text of the post mentions "debugging" and "error"
MentionsDebugging ==
    LET text == Lower(title \o <<SP>> \o content)
    IN HasSub(text, "debugging") /\ HasSub(text, "error")

\* the text of the post holds a keyword of the analysis entry
MentionsAnalysis ==
    AnyIn(Lower(title \o <<SP>> \o content),
          {"analyze", "review", "understand", "codebase", "structure"}, {})

\* _generate_enhanced_fallback was called for the request: by the engine
\* (line 635) or by the strategy after the engine raised (lines 153 and 203)
FallbackInvoked ==
    \/ ret.kind = "fallback"
    \/ ret.kind = "raised" /\ pc = "gc_done" /\ gc.kind = "returned"

\* the text it returned
FallbackText == IF ret.kind = "fallback" THEN ret.comment ELSE gc.comment

\* the brand recommendation sentence of the text is the template of id
RecommendationIs(text, id) == Contains(text, Spelling(context_map[id]))

\* the substitute of lines 739-743 was returned, which holds no template
SubstituteReturned(text) == text = FbNuclear \/ Contains(text, Spelling(FbNuclearTopic))

IsIn(id, ids) == \E i \in 1..Len(ids) : ids[i] = id

\* C20 (as amended): for every post that mentions "debugging" and "error"
\* and that the router hands to the reddit or the lightweight strategy, the
\* static context selection of the strategy, which the engine uses,
\* includes the debugging entry; if the fallback synthesizer is invoked
\* for the request, its brand recommendation sentence is the debugging
\* template when the text holds no keyword of the analysis entry, the
\* analysis template when it holds one, and there is no recommendation
\* sentence when the substitute for a generic text is returned.
C20_DebuggingPostSelectsDebugging ==
    (Called /\ MentionsDebugging /\ route \in {"reddit", "lightweight"}) =>
        /\ IsIn("debugging", frame.context_ids)
        /\ (pc = "attempt" \/ ret.kind \in {"accepted", "fallback"}) =>
              IsIn("debugging", eng.context_snippets_used)
        /\ FallbackInvoked =>
              IF SubstituteReturned(FallbackText)
              THEN \A id \in ContextMapIds : ~RecommendationIs(FallbackText, id)
              ELSE IF MentionsAnalysis
                   THEN /\ frame.context_ids[1] = "analysis"
                        /\ RecommendationIs(FallbackText, "analysis")
                        /\ ~RecommendationIs(FallbackText, "debugging")
                   ELSE RecommendationIs(FallbackText, "debugging")

\* C20 as stated: whatever else the post contains, the selection includes
\* the debugging entry and the fallback recommends with the debugging template
C20_DebuggingTemplateWhateverElse ==
    (Called /\ MentionsDebugging /\ route \in {"reddit", "lightweight"}) =>
        /\ IsIn("debugging", frame.context_ids)
        /\ FallbackInvoked => RecommendationIs(FallbackText, "debugging")

C20_Witness ==
    /\ Called /\ MentionsDebugging /\ ~MentionsAnalysis
    /\ route = "lightweight"
    /\ Exhausted
    /\ frame.context_ids = <<"debugging", "core">>
    /\ RecommendationIs(ret.comment, "debugging")

----------------------------------------------------------------------------
(* retrieval.py: the Context Store, load_index and search_by_name, called  *)
(* by two requests at the same time.                                       *)

MaxRecords == 2
DEFAULT_TOP_K == 5

Threads == {1, 2}
IndexNames == {"comments", "docs"}

\* unit vectors: the cosine similarity of two of them is their dot product
Directions == {<<1, 0>>, <<0, 1>>, <<-1, 0>>}

\* the metadata build_indexes.py writes: one record per chunk, in the order
\* the chunks were added
MetaRecords(n) == [i \in 1..n |-> [chunk_id |-> i]]

\* the two files of a corpus: <name>_vectors.npy and <name>_meta.json
Corpora ==
    {[readable |-> FALSE, vectors |-> <<>>, meta |-> <<>>]} \cup
    UNION {{[readable |-> TRUE, vectors |-> v, meta |-> MetaRecords(m)] :
               v \in [1..n -> Directions]} : n \in 0..MaxRecords, m \in 0..MaxRecords}

\* exceptions raised inside search_by_name
RetrievalErrors == {"FileNotFoundError", "ValueError", "RuntimeError", "MemoryError"}

NoThread == [pc |-> "idle", top_k |-> 0, vectors |-> <<>>, meta |-> <<>>, q_vec |-> <<>>,
             source |-> "none", embedded |-> FALSE, error |-> "none", result |-> <<>>]

Dot(a, b) == a[1] * b[1] + a[2] * b[2]

\* sklearn's cosine_similarity(q_vec, vectors)[0], for unit vectors
cosine_similarity(q_vec, vectors) == [i \in 1..Len(vectors) |-> Dot(q_vec, vectors[i])]

\* zip(scores, meta): as long as the shorter of the two
zip(scores, meta) ==
    [i \in 1..(IF Len(scores) < Len(meta) THEN Len(scores) ELSE Len(meta)) |->
        [score |-> scores[i], m |-> meta[i]]]

RECURSIVE InsertDescending(_, _)
\* x placed behind every element whose score is at least its own
InsertDescending(ranked, x) ==
    IF ranked = <<>> THEN <<x>>
    ELSE IF Head(ranked).score >= x.score
         THEN <<Head(ranked)>> \o InsertDescending(Tail(ranked), x)
         ELSE <<x>> \o ranked

RECURSIVE InsertAscending(_, _)
\* x placed behind every element whose score is at most its own
InsertAscending(ranked, x) ==
    IF ranked = <<>> THEN <<x>>
    ELSE IF Head(ranked).score <= x.score
         THEN <<Head(ranked)>> \o InsertAscending(Tail(ranked), x)
         ELSE <<x>> \o ranked

RECURSIVE SortedAscending(_)
SortedAscending(pairs) ==
    IF pairs = <<>> THEN <<>>
    ELSE InsertAscending(SortedAscending(SubSeq(pairs, 1, Len(pairs) - 1)), pairs[Len(pairs)])

Reversed(s) == [i \in 1..Len(s) |-> s[Len(s) + 1 - i]]

\* faulty variant of sorted_reverse: sorted(pairs, key=score)[::-1], which
\* turns the order of equal scores around
sorted_then_reversed(pairs) == Reversed(SortedAscending(pairs))

RECURSIVE sorted_reverse(_)
\* sorted(pairs, key=lambda x: x[0], reverse=True): Python's sort is stable,
\* also with reverse=True
sorted_reverse(pairs) ==
    IF pairs = <<>> THEN <<>>
    ELSE InsertDescending(sorted_reverse(SubSeq(pairs, 1, Len(pairs) - 1)), pairs[Len(pairs)])

\* s[:k] for k >= 0
FirstK(s, k) == SubSeq(s, 1, IF k < Len(s) THEN k ELSE Len(s))

\* lines 180-186: the ranking and the records returned
Ranked(q_vec, vectors, meta, top_k) ==
    LET ranked == FirstK(sorted_reverse(zip(cosine_similarity(q_vec, vectors), meta)), top_k)
    IN [i \in 1..Len(ranked) |-> [score |-> ranked[i].score, chunk_id |-> ranked[i].m.chunk_id]]

\* faulty variant of SearchCatches: only a missing file is handled
SearchCatchesMissingFile(error) == error = "FileNotFoundError"

\* line 187, `except Exception`: every error raised in search_by_name is one
SearchCatches(error) == error \in RetrievalErrors

InitRetrieval ==
    /\ pc = "retrieval"
    /\ caller = "retrieval"
    /\ req = None
    /\ fetched = None
    /\ post = None
    /\ api_key = TRUE
    /\ route = "none"
    /\ \E name \in IndexNames, corpus \in Corpora, k \in 0..(MaxRecords + 1) :
           frame = [index_name |-> name,
                    disk |-> corpus,
                    _indexes_cache |-> {},
                    reads |-> 0,
                    installs |-> 0,
                    threads |-> [t \in Threads |->
                                    [NoThread EXCEPT !.top_k = IF t = 1 THEN k ELSE DEFAULT_TOP_K]]]
    /\ eng = NoEng
    /\ last = NoCall
    /\ calls = NoCalls
    /\ ret = None
    /\ gc = None
    /\ response = None

Thread(t) == frame.threads[t]

\* the locals of thread t change, and with them the store and the counters
Step(t, thread, store, c) ==
    /\ pc = "retrieval"
    /\ frame' = [store EXCEPT !.threads[t] = thread]
    /\ calls' = c
    /\ UNCHANGED <<pc, caller, req, fetched, post, api_key, route, eng, last, ret, gc, response>>

\* what the except clause of lines 187-190 does with an error raised in the try
Raise(t, thread, store, c, error) ==
    IF SearchCatches(error)
    THEN Step(t, [thread EXCEPT !.pc = "returned", !.error = error, !.result = <<>>], store, c)
    ELSE Step(t, [thread EXCEPT !.pc = "raised", !.error = error], store, c)

\* lines 171-175: a request calls search_by_name
SearchCall(t) ==
    /\ caller = "retrieval"
    /\ Thread(t).pc = "idle"
    /\ Step(t, [Thread(t) EXCEPT !.pc = "load_index"], frame, [calls EXCEPT !.search = @ + 1])

\* lines 148-150: the corpus is in the cache and is returned from there
LoadIndexCached(t) ==
    /\ caller = "retrieval"
    /\ Thread(t).pc = "load_index"
    /\ \E entry \in frame._indexes_cache :
          /\ entry.name = frame.index_name
          /\ Step(t, [Thread(t) EXCEPT !.pc = "embed", !.vectors = entry.vectors,
                                       !.meta = entry.meta, !.source = "cache"],
                  frame, calls)

\* line 148: the corpus is not in the cache
LoadIndexMiss(t) ==
    /\ caller = "retrieval"
    /\ Thread(t).pc = "load_index"
    /\ \A entry \in frame._indexes_cache : entry.name # frame.index_name
    /\ Step(t, [Thread(t) EXCEPT !.pc = "read"], frame, calls)

\* lines 152-159: the two files are read; lines 166-168: a failure is raised
\* again
LoadIndexRead(t) ==
    /\ caller = "retrieval"
    /\ Thread(t).pc = "read"
    /\ LET store == [frame EXCEPT !.reads = @ + 1]
       IN IF frame.disk.readable
          THEN Step(t, [Thread(t) EXCEPT !.pc = "install", !.vectors = frame.disk.vectors,
                                         !.meta = frame.disk.meta, !.source = "disk"],
                    store, calls)
          ELSE Raise(t, [Thread(t) EXCEPT !.source = "disk"], store, calls, "FileNotFoundError")

\* line 162: the corpus is put in the cache under its name
LoadIndexInstall(t) ==
    /\ caller = "retrieval"
    /\ Thread(t).pc = "install"
    /\ LET entry == [name |-> frame.index_name, vectors |-> Thread(t).vectors,
                     meta |-> Thread(t).meta]
           others == {e \in frame._indexes_cache : e.name # frame.index_name}
       IN Step(t, [Thread(t) EXCEPT !.pc = "embed"],
               [frame EXCEPT !._indexes_cache = others \cup {entry}, !.installs = @ + 1],
               calls)

\* line 177: the query is embedded, or the embedder raises
EmbedQuery(t) ==
    /\ caller = "retrieval"
    /\ Thread(t).pc = "embed"
    /\ LET c == [calls EXCEPT !.embed = @ + 1]
           thread == [Thread(t) EXCEPT !.embedded = TRUE]
       IN \/ \E q_vec \in Directions :
                Step(t, [thread EXCEPT !.pc = "rank", !.q_vec = q_vec], frame, c)
          \/ \E error \in {"RuntimeError", "MemoryError"} : Raise(t, thread, frame, c, error)

\* lines 178-186: the scores, the ranking and the result; cosine_similarity
\* raises ValueError for an array without rows
RankAndReturn(t) ==
    /\ caller = "retrieval"
    /\ Thread(t).pc = "rank"
    /\ IF Thread(t).vectors = <<>>
       THEN Raise(t, Thread(t), frame, calls, "ValueError")
       ELSE Step(t, [Thread(t) EXCEPT
                        !.pc = "returned",
                        !.result = Ranked(Thread(t).q_vec, Thread(t).vectors, Thread(t).meta,
                                          Thread(t).top_k)],
                 frame, calls)

RetrievalNext ==
    \E t \in Threads :
        \/ SearchCall(t)
        \/ LoadIndexCached(t)
        \/ LoadIndexMiss(t)
        \/ LoadIndexRead(t)
        \/ LoadIndexInstall(t)
        \/ EmbedQuery(t)
        \/ RankAndReturn(t)

SpecRetrieval == InitRetrieval /\ [][RetrievalNext]_vars

----------------------------------------------------------------------------
(* Properties of the Context Store (SpecRetrieval).                        *)

\* thread t has returned from search_by_name with a ranking
Searched(t) == caller = "retrieval" /\ Thread(t).pc = "returned" /\ Thread(t).error = "none"

\* the records search_by_name had to rank: those with a vector and a metadata
\* record
Available(t) ==
    1..(IF Len(Thread(t).vectors) < Len(Thread(t).meta) THEN Len(Thread(t).vectors)
        ELSE Len(Thread(t).meta))

\* record a comes before record b: a higher similarity, or the same and
\* added to the index earlier
RanksBefore(t, a, b) ==
    LET sa == Dot(Thread(t).q_vec, Thread(t).vectors[a])
        sb == Dot(Thread(t).q_vec, Thread(t).vectors[b])
    IN sa > sb \/ (sa = sb /\ a < b)

\* C21: search_by_name returns the records by descending cosine similarity to
\* the query, records of equal similarity in the order they were added to the
\* index, cut to the first k
C21_RankedStableTopK ==
    \A t \in Threads :
        Searched(t) =>
            LET result == Thread(t).result
                k == Thread(t).top_k
            IN /\ Len(result) = (IF k < Cardinality(Available(t)) THEN k
                                 ELSE Cardinality(Available(t)))
               /\ \A i \in 1..Len(result) :
                     /\ result[i].chunk_id \in Available(t)
                     /\ result[i].score = Dot(Thread(t).q_vec, Thread(t).vectors[result[i].chunk_id])
               /\ \A i, j \in 1..Len(result) :
                     i < j => RanksBefore(t, result[i].chunk_id, result[j].chunk_id)
               /\ \A c \in Available(t) :
                     (\A i \in 1..Len(result) : result[i].chunk_id # c) =>
                         \A i \in 1..Len(result) : RanksBefore(t, result[i].chunk_id, c)

\* two records of equal similarity are returned, and a corpus of two records
\* is cut to one
C21_Witness ==
    /\ Searched(1) /\ Searched(2)
    /\ Len(Thread(2).result) = 2
    /\ Thread(2).result[1].score = Thread(2).result[2].score
    /\ Thread(1).top_k = 1
    /\ Len(Thread(1).result) = 1

\* C22: search_by_name with k = 0 returns the empty list without touching the
\* Context Store: it neither loads nor reads the index and issues no embedding
\* call
C22_ZeroKTouchesNothing ==
    \A t \in Threads :
        (caller = "retrieval" /\ Thread(t).top_k = 0 /\ Thread(t).pc = "returned") =>
            /\ Thread(t).result = <<>>
            /\ Thread(t).source = "none"
            /\ ~Thread(t).embedded

----------------------------------------------------------------------------
(* search_by_name on its own, or generate_comment called directly.         *)

InitRetrievalOrPipeline == InitRetrieval \/ InitDebugging
SpecRetrievalOrPipeline ==
    InitRetrievalOrPipeline /\ [][RetrievalNext \/ GenerateNext \/ EngineNext]_vars

\* the long-form strategy searched the indexes, got nothing, and is at or
\* past its call of the engine
SearchedInVain ==
    /\ caller = "direct"
    /\ route = "long_form"
    /\ calls.search > 0
    /\ frame # None
    /\ frame.strategy = "long_form"
    /\ eng.doc_facts = <<>>

\* C23: search_by_name never propagates a failure: when loading the index
\* fails, the corpus is empty or embedding the query fails, it returns the
\* empty list, and the long-form strategy that called it goes on to the
\* generation engine with no retrieved context
C23_SearchFailureYieldsEmptyContext ==
    /\ caller = "retrieval" =>
          \A t \in Threads :
              /\ Thread(t).pc # "raised"
              /\ Thread(t).error # "none" => Thread(t).pc = "returned" /\ Thread(t).result = <<>>
              /\ (Thread(t).source = "disk" /\ ~frame.disk.readable) => Thread(t).error # "none"
              /\ (Thread(t).pc = "returned" /\ Thread(t).embedded /\ Thread(t).q_vec = <<>>) =>
                     Thread(t).error # "none"
              /\ (Thread(t).pc = "returned" /\ Thread(t).vectors = <<>>) => Thread(t).result = <<>>
    /\ SearchedInVain =>
          /\ pc \in {"engine_call", "attempt", "engine_done", "gc_done"}
          /\ pc = "gc_done" => gc.kind = "returned"
          /\ calls.search = 2
          /\ calls.embed = 1

\* one search found the corpus empty and the other could not embed its query
C23_Witness ==
    /\ caller = "retrieval"
    /\ Thread(1).pc = "returned" /\ Thread(1).error = "ValueError"
    /\ Thread(2).pc = "returned" /\ Thread(2).error = "MemoryError"
    /\ Thread(1).result = <<>> /\ Thread(2).result = <<>>

\* C24: load_index checks on load that the number of vectors equals the
\* number of metadata records: a corpus whose two counts differ is neither
\* cached nor served to a search, so every cached index has equal counts
C24_CountsCheckedOnLoad ==
    caller = "retrieval" =>
        /\ \A entry \in frame._indexes_cache : Len(entry.vectors) = Len(entry.meta)
        /\ \A t \in Threads :
               Thread(t).pc \in {"embed", "rank", "returned"} =>
                   Len(Thread(t).vectors) = Len(Thread(t).meta)

\* C25: loading is lazy-once under concurrency: when several requests access
\* a corpus that is not loaded yet at the same time, the corpus is read from
\* disk and put in the cache exactly once, and later accesses only read the
\* cached value
C25_LoadedExactlyOnce ==
    caller = "retrieval" =>
        /\ frame.installs <= 1
        /\ frame.disk.readable => frame.reads <= 1
        /\ \A t \in Threads :
               (Thread(t).pc = "load_index" /\ frame.installs > 0) =>
                   \E entry \in frame._indexes_cache : entry.name = frame.index_name

----------------------------------------------------------------------------
(* prompt_builder.py: the recent-comment buffer and _check_repetition.     *)

_MAX_RECENT_CACHE == 50
OPENING_LEN == 100
MaxChecks == 3

\* hashlib.md5(...).hexdigest(): equal texts have equal digests, and no two
\* texts of the model share one
md5(text) == [md5 |-> text]

\* a buffer of n digests of other comments, oldest first
OtherHashes(n) == [i \in 1..n |-> md5(<<Tok("lorem", i)>>)]

Opening == <<Cap("lorem", OPENING_LEN - 1), SP>>

RepetitionDrafts ==
    { Ws(<<"thanks", "for", "sharing">>) \o <<DOT>>,
      <<CapW("thanks"), SP>> \o Ws(<<"for", "sharing">>) \o <<DOT>>,
      Opening \o Ws(<<"kilocode", "helps">>),
      Lower(Opening) \o Ws(<<"great", "tool">>),
      <<Tok("lorem", OPENING_LEN - 1), DOT>> \o Ws(<<"great", "tool">>) }

RecentBuffers ==
    { <<>>,
      OtherHashes(_MAX_RECENT_CACHE - 1),
      OtherHashes(_MAX_RECENT_CACHE),
      <<md5(Lower(Opening))>> \o OtherHashes(_MAX_RECENT_CACHE - 1),
      OtherHashes(2) \o <<md5(Ws(<<"thanks", "for", "sharing">>) \o <<DOT>>)>> }

\* faulty variant of _check_repetition: a full buffer drops its newest digest
CheckRepetitionDropsNewest(recent, comment) ==
    LET comment_hash == md5(Lower(Take(comment, OPENING_LEN)))
    IN IF \E i \in 1..Len(recent) : recent[i] = comment_hash
       THEN [unique |-> FALSE, recent |-> recent]
       ELSE [unique |-> TRUE,
             recent |-> IF Len(recent) + 1 > _MAX_RECENT_CACHE THEN recent
                        ELSE Append(recent, comment_hash)]

\* faulty variant of _check_repetition: the buffer is trimmed when it is full,
\* not when it is overfull
CheckRepetitionTrimsEarly(recent, comment) ==
    LET comment_hash == md5(Lower(Take(comment, OPENING_LEN)))
        appended == Append(recent, comment_hash)
    IN IF \E i \in 1..Len(recent) : recent[i] = comment_hash
       THEN [unique |-> FALSE, recent |-> recent]
       ELSE [unique |-> TRUE,
             recent |-> IF Len(appended) >= _MAX_RECENT_CACHE THEN Tail(appended)
                        ELSE appended]

\* _check_repetition (lines 71-89): the answer and the buffer afterwards
_check_repetition(recent, comment) ==
    LET comment_hash == md5(Lower(Take(comment, OPENING_LEN)))
        appended == Append(recent, comment_hash)
    IN IF \E i \in 1..Len(recent) : recent[i] = comment_hash
       THEN [unique |-> FALSE, recent |-> recent]
       ELSE [unique |-> TRUE,
             recent |-> IF Len(appended) > _MAX_RECENT_CACHE THEN Tail(appended)
                        ELSE appended]

InitRepetition ==
    /\ pc = "check_repetition"
    /\ caller = "repetition"
    /\ req = None
    /\ fetched = None
    /\ post = None
    /\ api_key = TRUE
    /\ route = "none"
    /\ \E recent \in RecentBuffers : frame = [_recent_comment_hashes |-> recent, before |-> recent]
    /\ eng = NoEng
    /\ last = NoCall
    /\ calls = NoCalls
    /\ ret = [kind |-> "checked", log |-> <<>>]
    /\ gc = None
    /\ response = None

\* one call of _check_repetition; the log keeps the drafts, the answers and
\* the buffer after each call
CheckRepetition ==
    /\ pc = "check_repetition"
    /\ Len(ret.log) < MaxChecks
    /\ \E comment \in RepetitionDrafts :
          LET r == _check_repetition(frame._recent_comment_hashes, comment)
          IN /\ frame' = [_recent_comment_hashes |-> r.recent,
                          before |-> frame._recent_comment_hashes]
             /\ ret' = [ret EXCEPT !.log = Append(@, [comment |-> comment, unique |-> r.unique,
                                                     recent |-> r.recent])]
    /\ UNCHANGED <<pc, caller, req, fetched, post, api_key, route, eng, last, calls, gc, response>>

SpecRepetition == InitRepetition /\ [][CheckRepetition]_vars

----------------------------------------------------------------------------
(* Properties of the recent-comment buffer (SpecRepetition).               *)

\* the texts a and b read the same in their first 100 characters, whatever
\* the case of their letters
SameOpening(a, b) ==
    /\ CharLen(Take(a, OPENING_LEN)) = CharLen(Take(b, OPENING_LEN))
    /\ Len(Take(a, OPENING_LEN)) = Len(Take(b, OPENING_LEN))
    /\ \A i \in 1..Len(Take(a, OPENING_LEN)) :
           /\ Take(a, OPENING_LEN)[i].w = Take(b, OPENING_LEN)[i].w
           /\ Take(a, OPENING_LEN)[i].n = Take(b, OPENING_LEN)[i].n

\* C26: whatever the buffer held before, a draft checked twice in a row is
\* reported not unique the second time; two drafts whose first 100 characters
\* agree up to case are the same draft
C26_SecondCheckIsNotUnique ==
    caller = "repetition" =>
        /\ \A i \in 2..Len(ret.log) :
               SameOpening(ret.log[i].comment, ret.log[i - 1].comment) => ~ret.log[i].unique
        /\ Len(frame._recent_comment_hashes) <= _MAX_RECENT_CACHE

\* a full buffer took the draft in, and the draft in other letters and with
\* another ending was then reported as a repetition
C26_Witness ==
    /\ caller = "repetition"
    /\ Len(ret.log) = 2
    /\ Len(frame.before) = _MAX_RECENT_CACHE
    /\ ret.log[1].unique
    /\ ret.log[1].comment # ret.log[2].comment
    /\ CharLen(ret.log[1].comment) > OPENING_LEN
    /\ SameOpening(ret.log[1].comment, ret.log[2].comment)
    /\ ~ret.log[2].unique

----------------------------------------------------------------------------
(* Further properties of the pipeline (Spec).                              *)

\* generate_comment answered a twitter post
TwitterAnswered == route = "twitter" /\ pc = "gc_done" /\ gc.kind = "returned"

\* C27: for every twitter post the returned comment has 1 or 2 sentences,
\* counted as the non-empty pieces between runs of '.', '!' and '?', and holds
\* no documentation or context-pack text, whatever words the tweet contains
C27_TwitterReplyOneOrTwoSentences ==
    TwitterAnswered =>
        /\ _count_sentences(gc.comment) \in 1..2
        /\ calls.embed = 0 /\ calls.search = 0
        /\ eng = NoEng
        /\ \A id \in ContextMapIds : ~RecommendationIs(gc.comment, id)

\* C29: when fetch_status is anything other than "success", generate_comment
\* issues no index search, on every platform and for every content length
C29_NoSearchUnlessFetched ==
    (caller \in {"endpoint", "direct"} /\ post # None /\ post.fetch_status # "success") =>
        calls.search = 0

\* a long post whose fetch timed out went through the long-form strategy, its
\* chunks were embedded and the engine was called, without a search
C29_Witness ==
    /\ caller = "direct"
    /\ post.fetch_status = "timeout"
    /\ post.platform = "github"
    /\ route = "long_form"
    /\ frame # None
    /\ frame.strategy = "long_form"
    /\ calls.embed = 1
    /\ eng.post_content # <<>>
    /\ calls.search = 0
    /\ pc = "gc_done"

----------------------------------------------------------------------------
(* fetchers.py: the retry loop of fetch_post_content.                      *)

MIN_FETCHED_LEN == 20
FETCHED_TEXT_CAP == 50000

\* what one requests.get can end in: an exception, or a response
FetchAnswers ==
    { [kind |-> "exception", type |-> ty, status_code |-> 0, text |-> <<>>] :
          ty \in {"Timeout", "HTTPError", "ConnectionError"} }
    \cup { [kind |-> "response", type |-> "", status_code |-> c, text |-> <<>>] :
             c \in {403, 404, 500} }
    \cup { [kind |-> "response", type |-> "", status_code |-> 200, text |-> x] :
             x \in { <<>>, Ws(<<"great", "tool">>),
                     Ws(<<"how", "to", "refactor", "errors", "in", "docker">>),
                     <<Cap("lorem", FETCHED_TEXT_CAP + 1)>> } }

FetchFailed(status) == [text |-> <<>>, fetch_status |-> status, content_len |-> 0]

\* one pass of the loop body (lines 30-95) at `attempt`: "continue" after a
\* sleep of 1 * (attempt + 1) seconds, or the record returned
FetchPass(answer, attempt, max_retries) ==
    LET again(status) ==
            IF attempt < max_retries THEN [continue |-> TRUE, sleep |-> attempt + 1]
            ELSE [continue |-> FALSE, result |-> FetchFailed(status)]
    IN IF answer.kind = "exception"
       THEN (CASE answer.type = "Timeout" -> again("timeout")
               [] answer.type = "HTTPError" -> again("http_error")
               [] OTHER -> again("error"))
       ELSE IF answer.status_code = 403 THEN again("blocked")
       ELSE IF answer.status_code >= 400
            THEN [continue |-> FALSE, result |-> FetchFailed("http_error")]
       ELSE IF CharLen(Strip(answer.text)) < MIN_FETCHED_LEN
            THEN [continue |-> FALSE,
                  result |-> [text |-> <<>>, fetch_status |-> "empty",
                              content_len |-> CharLen(answer.text)]]
       ELSE [continue |-> FALSE,
             result |-> [text |-> Take(answer.text, FETCHED_TEXT_CAP), fetch_status |-> "success",
                         content_len |-> CharLen(answer.text)]]

InitFetch ==
    /\ pc = "fetch"
    /\ caller = "fetcher"
    /\ req = None
    /\ fetched = None
    /\ post = None
    /\ api_key = TRUE
    /\ route = "none"
    /\ \E r \in (-1)..MaxRetries :
           frame = [max_retries |-> r, attempt |-> 0, answers |-> <<>>, slept |-> <<>>]
    /\ eng = NoEng
    /\ last = NoCall
    /\ calls = NoCalls
    /\ ret = None
    /\ gc = None
    /\ response = None

\* lines 30-95: one attempt, with the request it issues
FetchAttempt ==
    /\ pc = "fetch"
    /\ frame.attempt <= frame.max_retries
    /\ \E answer \in FetchAnswers :
          LET pass == FetchPass(answer, frame.attempt, frame.max_retries)
              asked == [frame EXCEPT !.answers = Append(@, answer)]
          IN IF pass.continue
             THEN /\ frame' = [asked EXCEPT !.attempt = @ + 1, !.slept = Append(@, pass.sleep)]
                  /\ UNCHANGED <<pc, fetched>>
             ELSE /\ frame' = asked
                  /\ fetched' = pass.result
                  /\ pc' = "fetch_done"
    /\ UNCHANGED <<caller, req, post, api_key, route, eng, last, calls, ret, gc, response>>

\* lines 97-98: the loop ended without a return
FetchLoopEnded ==
    /\ pc = "fetch"
    /\ frame.attempt > frame.max_retries
    /\ fetched' = FetchFailed("error")
    /\ pc' = "fetch_done"
    /\ UNCHANGED <<caller, req, post, api_key, route, frame, eng, last, calls, ret, gc, response>>

FetchNext == FetchAttempt \/ FetchLoopEnded

SpecFetch == InitFetch /\ [][FetchNext]_vars

----------------------------------------------------------------------------
(* Properties of the fetcher (SpecFetch).                                  *)

\* the answers after which the claim expects another attempt
RetriedAnswer(answer) ==
    \/ answer.kind = "exception" /\ answer.type = "Timeout"
    \/ answer.kind = "response" /\ answer.status_code >= 400

\* C28: fetch_post_content never raises and always returns a result record;
\* it issues at most max_retries + 1 HTTP requests, and after a timeout, an
\* HTTP-error response or a blocked (403) response it retries with backoff
\* while attempts remain
C28_FetchRetriesTimeoutHttpErrorBlocked ==
    caller = "fetcher" =>
        /\ pc = "fetch_done" =>
              fetched.fetch_status \in {"success", "empty", "blocked", "http_error", "timeout", "error"}
        /\ Len(frame.answers) <= frame.max_retries + 1
        /\ \A i \in 1..Len(frame.answers) :
               (RetriedAnswer(frame.answers[i]) /\ i - 1 < frame.max_retries) =>
                   /\ Len(frame.slept) >= i
                   /\ frame.slept[i] = i
                   /\ Len(frame.answers) > i \/ pc = "fetch"

----------------------------------------------------------------------------
(* Further properties of the quality validator (SpecValidator).            *)

\* the rules in the order of the claim, and the reasons each can report
RuleOf(reason) ==
    CASE reason \in {"too_short", "too_long"} -> 1
      [] reason \in {"too_few_sentences", "too_many_sentences"} -> 2
      [] reason = "no_kilocode_mention" -> 3
      [] reason = "contains_forbidden_phrase" -> 4
      [] reason = "contains_generic_phrases" -> 5
      [] reason = "insufficient_context_reference" -> 6
      [] reason = "valid" -> 7

\* the rules the draft d fails for a post with the text `text`
FailedRules(d, text) ==
    {r \in 1..6 :
        \/ r = 1 /\ (CharLen(d) < MIN_COMMENT_LENGTH \/ CharLen(d) > MAX_COMMENT_LENGTH)
        \/ r = 2 /\ (_count_sentences(d) < MIN_SENTENCES \/ _count_sentences(d) > MAX_SENTENCES)
        \/ r = 3 /\ ~(\E i \in 1..Len(d) : "kilocode" \in Subs(d[i].w))
        \/ r = 4 /\ (\E ph \in FORBIDDEN_PHRASES : Contains(Lower(d), ph))
        \/ r = 5 /\ (\E ph \in GENERIC_PHRASES : Contains(Lower(d), ph))
        \/ r = 6 /\ Cardinality(C16_ContentWordsOf(text) \cap C16_ContentWordsOf(d)) < 2}

Validated == pc = "validate_done" /\ ret.kind = "validated"

GenericPhrasesIn(d) == {ph \in GENERIC_PHRASES : Contains(Lower(d), ph)}
SharedContentWords(d, text) == C16_ContentWordsOf(text) \cap C16_ContentWordsOf(d)

\* the verdict carries the metrics of the draft in full
C31_AllMetricsComputed ==
    Validated =>
        LET d == ret.comment
            text == eng.post_title \o <<SP>> \o eng.post_content
            details == ret.verdict.details
        IN /\ details.length = CharLen(d)
           /\ details.sentence_count = _count_sentences(d)
           /\ details.has_kilocode <=> (\E i \in 1..Len(d) : "kilocode" \in Subs(d[i].w))
           /\ details.generic_phrases = GenericPhrasesIn(d)
           /\ details.overlap_count = Cardinality(SharedContentWords(d, text))

\* C31: the verdict of _validate_comment_quality carries the length, the
\* sentence count and the brand flag of the draft whichever rule fails; the
\* generic phrases are listed only when the length, sentence, brand and
\* forbidden-phrase rules passed (else the list is empty), and the overlap
\* count is the number of shared content words only when the draft holds no
\* generic phrase either (else it is 0)
C31_MetricsComputedUpToFailedRule ==
    Validated =>
        LET d == ret.comment
            text == eng.post_title \o <<SP>> \o eng.post_content
            details == ret.verdict.details
            rule == RuleOf(ret.verdict.reason)
        IN /\ details.length = CharLen(d)
           /\ details.sentence_count = _count_sentences(d)
           /\ details.has_kilocode <=> (\E i \in 1..Len(d) : "kilocode" \in Subs(d[i].w))
           /\ details.generic_phrases = (IF rule >= 5 THEN GenericPhrasesIn(d) ELSE {})
           /\ details.overlap_count =
                  (IF rule >= 6 THEN Cardinality(SharedContentWords(d, text)) ELSE 0)

\* a draft rejected as too short holds a generic phrase and shares two words
\* with the post, and its verdict shows neither
C31_Witness ==
    /\ Validated
    /\ ret.verdict.reason = "too_short"
    /\ GenericPhrasesIn(ret.comment) # {}
    /\ Cardinality(SharedContentWords(ret.comment, eng.post_title \o <<SP>> \o eng.post_content)) >= 2
    /\ ret.verdict.details.generic_phrases = {}
    /\ ret.verdict.details.overlap_count = 0

----------------------------------------------------------------------------
(* Further properties of the engine (SpecEngine).                          *)

\* the phrases the retry instruction of _build_user_prompt lists as banned:
\* lines 424-428
RETRY_BANNED_PHRASES ==
    { <<"many", " ", "developers", " ", "encounter">>,
      <<"analyze", " ", "systematically">>,
      <<"time-consuming", " ", "manual", " ", "inspection">>,
      <<"similar", " ", "patterns">> }

\* the task section of _build_user_prompt (lines 412-437): the line that names
\* the reason of the rejection, and the banned phrases listed
TaskInstruction(is_retry, retry_reason) ==
    IF is_retry
    THEN [previous_attempt_rejected |-> <<retry_reason>>, banned |-> RETRY_BANNED_PHRASES]
    ELSE [previous_attempt_rejected |-> <<>>, banned |-> {}]

\* the engine issues a retry call in this step
RetryCall == pc = "attempt" /\ eng.attempt > 0 /\ last' # last

\* on every retry the instruction names the reason the validator reported for
\* the preceding draft and repeats the forbidden phrases
C32_RetryNamesValidatorReason ==
    [][(RetryCall /\ last.outcome = "rejected") =>
          LET task == TaskInstruction(last'.is_retry, last'.retry_reason)
          IN /\ task.previous_attempt_rejected = <<last.reason>>
             /\ task.banned = FORBIDDEN_PHRASES]_vars

\* the instruction of a retry call, whatever preceded it
C32_RetryInstruction ==
    RetryCall =>
        LET task == TaskInstruction(last'.is_retry, last'.retry_reason)
        IN /\ last'.is_retry
           /\ last.outcome \in {"rejected", "transient_error", "unknown_error"}
           /\ task.previous_attempt_rejected =
                  (IF last.outcome = "rejected" THEN <<"too generic">> ELSE <<"">>)
           /\ last.outcome = "rejected" => last.reason # "valid"
           /\ task.banned = RETRY_BANNED_PHRASES
           /\ task.banned \cap FORBIDDEN_PHRASES = {}

\* C32: on every retry attempt the instruction section of the prompt holds the
\* line "PREVIOUS ATTEMPT REJECTED:" followed by one fixed text ("Comment was
\* too generic or didn't reference specific post details") when the preceding
\* attempt was a draft the validator rejected, whatever reason the validator
\* reported, and by nothing when the preceding attempt ended in an error; it
\* lists four fixed banned phrases, none of them a forbidden phrase
C32_RetryGivesFixedReason == [][C32_RetryInstruction]_vars

\* a draft rejected as too short was followed by a retry whose prompt gave the
\* fixed reason
C32_Witness ==
    /\ caller = "engine"
    /\ last.is_retry
    /\ last.retry_reason = "too generic"
    /\ last.outcome = "rejected"
    /\ last.attempt = 1
    /\ last.reason = "too_short"

----------------------------------------------------------------------------
(* get_relevant_context_snippets called on its own.                        *)

DEFAULT_MAX_SNIPPETS == 3

\* one word per topic of the pack that holds a keyword of the topic, in the
\* order of the pack: analysis, debugging, refactoring, docs, testing,
\* context, workflow
TopicWords ==
    <<"review", "debugging", "refactoring", "readme", "testing", "monorepo", "boilerplate">>

RECURSIVE WordsChosen(_, _)
\* the words of TopicWords from position i on that `chosen` holds, with a
\* space before each
WordsChosen(chosen, i) ==
    IF i > Len(TopicWords) THEN <<>>
    ELSE (IF chosen[i] THEN <<SP, W(TopicWords[i])>> ELSE <<>>) \o WordsChosen(chosen, i + 1)

SnippetContents ==
    { Ws(<<"great", "tool">>) \o WordsChosen(chosen, 1) : chosen \in [1..Len(TopicWords) -> BOOLEAN] }

InitSnippets ==
    /\ pc = "snippets_call"
    /\ caller = "snippets"
    /\ req = None
    /\ fetched = None
    /\ post = None
    /\ api_key = TRUE
    /\ route = "none"
    /\ \E m \in {DEFAULT_MAX_SNIPPETS - 1, DEFAULT_MAX_SNIPPETS} : frame = [max_snippets |-> m]
    /\ \E t \in {<<>>, <<CapW("debugging")>>}, c \in SnippetContents :
           eng = [NoEng EXCEPT !.post_title = t, !.post_content = c]
    /\ last = NoCall
    /\ calls = NoCalls
    /\ ret = None
    /\ gc = None
    /\ response = None

\* one call of get_relevant_context_snippets
SelectSnippets ==
    /\ pc = "snippets_call"
    /\ ret' = [kind |-> "snippets",
               ids |-> get_relevant_context_snippets(eng.post_content, eng.post_title,
                                                     frame.max_snippets)]
    /\ pc' = "snippets_done"
    /\ UNCHANGED <<caller, req, fetched, post, api_key, route, frame, eng, last, calls, gc, response>>

SpecSnippets == InitSnippets /\ [][SelectSnippets]_vars

----------------------------------------------------------------------------
(* Properties of the snippet selection (SpecSnippets).                     *)

SnippetsSelected == pc = "snippets_done" /\ ret.kind = "snippets"

\* the positions in the pack of the topics of which the post holds a keyword
MatchedTopics ==
    {i \in 1..Len(KILOCODE_CONTEXT_PACK) :
        /\ KILOCODE_CONTEXT_PACK[i] # "core"
        /\ SnippetScore(KILOCODE_CONTEXT_PACK[i],
                        Lower(eng.post_title \o <<SP>> \o eng.post_content)) = 10}

Returned(id) == \E j \in 1..Len(ret.ids) : ret.ids[j] = id

\* every topic of which the post holds a keyword is returned with the default
\* max_snippets, however many topics match
C33_EveryMatchedTopicReturned ==
    (SnippetsSelected /\ frame.max_snippets = DEFAULT_MAX_SNIPPETS) =>
        \A i \in MatchedTopics : Returned(KILOCODE_CONTEXT_PACK[i])

\* C33: whenever the post title plus content contains a keyword of a topic,
\* get_relevant_context_snippets returns that topic's snippet if and only if
\* fewer than max_snippets matched topics precede it in the order of the pack
\* (analysis, debugging, refactoring, docs, testing, context, workflow): at
\* most max_snippets snippets are returned, and the core snippet follows the
\* matched ones only when fewer than max_snippets topics matched
C33_FirstMatchedTopicsReturned ==
    SnippetsSelected =>
        /\ Len(ret.ids) <= frame.max_snippets
        /\ \A i \in MatchedTopics :
               Returned(KILOCODE_CONTEXT_PACK[i]) <=>
                   Cardinality({j \in MatchedTopics : j < i}) < frame.max_snippets
        /\ Returned("core") <=> Cardinality(MatchedTopics) < frame.max_snippets
        /\ \A j \in 1..Len(ret.ids) :
               ret.ids[j] = "core" \/ \E i \in MatchedTopics : KILOCODE_CONTEXT_PACK[i] = ret.ids[j]

\* a post about review, debugging, refactoring and testing gets the first
\* three topics and not the testing snippet
C33_Witness ==
    /\ SnippetsSelected
    /\ frame.max_snippets = DEFAULT_MAX_SNIPPETS
    /\ Cardinality(MatchedTopics) = 4
    /\ ret.ids = <<"analysis", "debugging", "refactoring">>
    /\ SnippetScore("testing", Lower(eng.post_title \o <<SP>> \o eng.post_content)) = 10

----------------------------------------------------------------------------
(* classify_error called on its own.                                       *)

ClassifiedTypes ==
    CONFIG_ERROR_TYPES \cup TRANSIENT_ERROR_TYPES \cup {"Exception", "ValueError", "TimeoutError"}

ClassifiedMessages ==
    {"404 model not found", "429 rate limit", "503 unavailable", "500 internal", "Model Not Found",
     "Rate exceeded 404", "generate failed", "503 not found", "500 after 429", "boom", ""}

InitClassify ==
    /\ pc = "classify_call"
    /\ caller = "classify"
    /\ req = None
    /\ fetched = None
    /\ post = None
    /\ api_key = TRUE
    /\ route = "none"
    /\ \E ty \in ClassifiedTypes, msg \in ClassifiedMessages : frame = [type |-> ty, msg |-> msg]
    /\ eng = NoEng
    /\ last = NoCall
    /\ calls = NoCalls
    /\ ret = None
    /\ gc = None
    /\ response = None

\* one call of classify_error
Classify ==
    /\ pc = "classify_call"
    /\ ret' = [kind |-> "classified", error_type |-> classify_error(frame)]
    /\ pc' = "classify_done"
    /\ UNCHANGED <<caller, req, fetched, post, api_key, route, frame, eng, last, calls, gc, response>>

SpecClassify == InitClassify /\ [][Classify]_vars

----------------------------------------------------------------------------
(* Properties of the error classification (SpecClassify).                  *)

Classified == pc = "classify_done" /\ ret.kind = "classified"

Holds(markers) == MsgSubs(frame.msg) \cap markers # {}

\* C34: classify_error is a total three-way decision: a config exception type
\* gives config_error and a transient exception type transient_error, the
\* type being decided before the message; failing both, a message holding
\* '404' or 'not found' gives config_error, else one holding '429', 'rate',
\* '500' or '503' gives transient_error; anything else is unknown_error
C34_TypeThenMessage ==
    Classified =>
        /\ ret.error_type \in {"config_error", "transient_error", "unknown_error"}
        /\ frame.type \in CONFIG_ERROR_TYPES => ret.error_type = "config_error"
        /\ frame.type \in TRANSIENT_ERROR_TYPES => ret.error_type = "transient_error"
        /\ frame.type \notin CONFIG_ERROR_TYPES \cup TRANSIENT_ERROR_TYPES =>
              /\ Holds({"404", "not found"}) => ret.error_type = "config_error"
              /\ (~Holds({"404", "not found"}) /\ Holds({"429", "rate", "500", "503"})) =>
                     ret.error_type = "transient_error"
              /\ ~Holds({"404", "not found", "429", "rate", "500", "503"}) =>
                     ret.error_type = "unknown_error"

\* a timeout of the backend whose message speaks of a 404 is transient
C34_Witness ==
    /\ Classified
    /\ frame.type = "DeadlineExceeded"
    /\ Holds({"404"})
    /\ ret.error_type = "transient_error"

----------------------------------------------------------------------------
(* prompt_builder.py: build_lightweight_comment and what it calls.         *)

PLATFORM_MIN_SENTENCES == [reddit |-> 3, github |-> 3, hn |-> 2, twitter |-> 1]

KILOCODE_CONCEPTS ==
    [automation |->
        <<CapW("kilocode"), SP, W("can"), SP, W("automate"), SP, W("repetitive"), SP, W("coding"), SP,
        W("tasks"), Tok(",", 1), SP, W("letting"), SP, W("you"), SP, W("focus"), SP, W("on"), SP,
        W("architecture"), SP, W("and"), SP, W("logic")>>,
     workflow |->
        <<CapW("kilocode"), SP, W("streamlines"), SP, W("development"), SP, W("workflows"), SP, W("by"),
        SP, W("handling"), SP, W("boilerplate"), SP, W("and"), SP, W("common"), SP, W("patterns")>>,
     productivity |->
        <<CapW("kilocode"), SP, W("helps"), SP, W("developers"), SP, W("work"), SP, W("faster"), SP,
        W("by"), SP, W("understanding"), SP, W("context"), SP, W("and"), SP, W("generating"), SP,
        W("relevant"), SP, W("code")>>,
     refactoring |->
        <<CapW("kilocode"), SP, W("makes"), SP, W("refactoring"), SP, W("safer"), SP, W("by"), SP,
        W("analyzing"), SP, W("dependencies"), SP, W("and"), SP, W("suggesting"), SP,
        W("improvements")>>,
     debugging |->
        <<CapW("kilocode"), SP, W("can"), SP, W("help"), SP, W("identify"), SP, W("issues"), SP,
        W("faster"), SP, W("by"), SP, W("analyzing"), SP, W("error"), SP, W("patterns"), SP, W("and"),
        SP, W("suggesting"), SP, W("fixes")>>,
     documentation |->
        <<CapW("kilocode"), SP, W("generates"), SP, W("documentation"), SP, W("that"), SP, W("stays"),
        SP, W("in"), SP, W("sync"), SP, W("with"), SP, W("your"), SP, W("codebase")>>,
     testing |->
        <<CapW("kilocode"), SP, W("can"), SP, W("suggest"), SP, W("test"), SP, W("cases"), SP,
        W("based"), SP, W("on"), SP, W("your"), SP, W("code's"), SP, W("logic"), SP, W("and"), SP,
        W("edge"), SP, W("cases")>>,
     general |->
        <<CapW("kilocode"), SP, W("is"), SP, W("an"), SP, CapW("ai-powered"), SP, W("coding"), SP,
        W("assistant"), SP, W("that"), SP, W("understands"), SP, W("your"), SP, W("project"), SP,
        W("context")>>]

\* _detect_kilocode_mention
_detect_kilocode_mention(text) == HasSub(text, "kilocode")

\* _get_kilocode_injection: the concept the first matching keyword list names
_get_kilocode_injection(post_content, post_title) ==
    LET text == post_title \o <<SP>> \o post_content
    IN IF AnyIn(text, {"automate", "automation", "repetitive", "manual"}, {})
       THEN KILOCODE_CONCEPTS.automation
       ELSE IF AnyIn(text, {"workflow", "process", "pipeline"}, {})
       THEN KILOCODE_CONCEPTS.workflow
       ELSE IF AnyIn(text, {"slow", "faster", "speed", "productivity", "efficient"}, {})
       THEN KILOCODE_CONCEPTS.productivity
       ELSE IF AnyIn(text, {"refactor", "refactoring", "cleanup"}, {<<"technical", " ", "debt">>})
       THEN KILOCODE_CONCEPTS.refactoring
       ELSE IF AnyIn(text, {"bug", "debug", "error", "issue", "problem"}, {})
       THEN KILOCODE_CONCEPTS.debugging
       ELSE IF AnyIn(text, {"document", "documentation", "docs"}, {})
       THEN KILOCODE_CONCEPTS.documentation
       ELSE IF AnyIn(text, {"test", "testing", "coverage"}, {<<"unit", " ", "test">>})
       THEN KILOCODE_CONCEPTS.testing
       ELSE KILOCODE_CONCEPTS.general

\* detect_intent (lines 278-297)
detect_intent(text) ==
    IF AnyIn(text, {}, {<<"has", " ", "anyone", " ", "tried">>, <<"anyone", " ", "tried">>})
    THEN "ask_experience"
    ELSE IF AnyIn(text, {}, {<<"i", " ", "have", " ", "been", " ", "trying">>,
                             <<"i've", " ", "been", " ", "trying">>})
    THEN "share_experience"
    ELSE IF AnyIn(text, {"compare", "vs", "versus"}, {}) THEN "comparison"
    ELSE IF AnyIn(text, {"help", "issue", "problem", "error"}, {}) THEN "help_request"
    ELSE IF AnyIn(text, {"thanks"}, {<<"thank", " ", "you">>}) THEN "appreciation"
    ELSE "general"

FillerWords ==
    {"about", "there", "their", "would", "could", "should", "really", "think", "thing", "these",
     "those", "where", "which"}

\* [w for w in content.split() if len(w) > 4 and w.lower() not in [...]]
MeaningfulWords(post_content) == FilterTerms(Split(post_content), 4, FillerWords)

TitleFillerWords == {"this", "that", "with", "from", "have", "they", "their", "what", "about"}

\* the fixed texts of build_title_only_comment
TitleOnlyText ==
    [see_youre_asking |->
        <<CapW("i"), SP, W("see"), SP, W("you're"), SP, W("asking"), SP, W("about"), SP>>,
     hope_responses |->
        <<DOT, SP, CapW("hope"), SP, W("you"), SP, W("get"), SP, W("some"), SP, W("helpful"), SP,
        W("responses"), BANG>>,
     great_question |->
        <<CapW("great"), SP, W("question"), SP, W("about"), SP>>,
     looking_forward |->
        <<BANG, SP, CapW("looking"), SP, W("forward"), SP, W("to"), SP, W("seeing"), SP, W("the"), SP,
        W("answers"), DOT>>,
     thanks_experience |->
        <<CapW("thanks"), SP, W("for"), SP, W("sharing"), SP, W("your"), SP, W("experience"), SP,
        W("with"), SP>>,
     interesting_post |->
        <<CapW("interesting"), SP, W("post"), SP, W("about"), SP>>,
     thanks_starting |->
        <<BANG, SP, CapW("thanks"), SP, W("for"), SP, W("starting"), SP, W("this"), SP, W("discussion"),
        DOT>>,
     this_topic |->
        <<W("this"), SP, W("topic")>>]

\* the sentences _ensure_minimum_length adds
MinimumText ==
    [implementation |->
        <<CapW("the"), SP, W("implementation"), SP, W("approach"), SP, W("you're"), SP,
        W("considering"), SP, W("makes"), SP, W("sense"), DOT>>,
     performance |->
        <<CapW("performance"), SP, W("optimization"), SP, W("is"), SP, W("definitely"), SP, W("worth"),
        SP, W("the"), SP, W("effort"), SP, W("here"), DOT>>,
     scalability |->
        <<CapW("scalability"), SP, W("should"), SP, W("be"), SP, W("a"), SP, W("key"), SP,
        W("consideration"), SP, W("from"), SP, W("the"), SP, W("start"), DOT>>,
     your_approach |->
        <<CapW("your"), SP, W("approach"), SP, W("to"), SP, W("handling"), SP>>,
     well_thought_out |->
        <<SP, W("is"), SP, W("well"), SP, W("thought"), SP, W("out"), DOT>>,
     github |->
        <<CapW("looking"), SP, W("forward"), SP, W("to"), SP, W("seeing"), SP, W("how"), SP, W("this"),
        SP, W("develops"), DOT>>,
     reddit |->
        <<CapW("this"), SP, W("will"), SP, W("definitely"), SP, W("resonate"), SP, W("with"), SP,
        W("others"), SP, W("facing"), SP, W("similar"), SP, W("challenges"), DOT>>,
     other |->
        <<CapW("great"), SP, W("topic"), SP, W("for"), SP, W("discussion"), DOT>>]

\* the fixed texts of build_lightweight_comment
LightweightText ==
    [thanks_starting |->
        <<CapW("thanks"), SP, W("for"), SP, W("starting"), SP, W("this"), SP, W("discussion"), BANG>>,
     understand_with |->
        <<CapW("i"), SP, W("understand"), SP, W("the"), SP, W("challenge"), SP, W("you're"), SP,
        W("facing"), SP, W("with"), SP>>,
     understand_here |->
        <<CapW("i"), SP, W("understand"), SP, W("the"), SP, W("challenge"), SP, W("you're"), SP,
        W("facing"), SP, W("here"), DOT>>,
     debugging_tricky |->
        <<CapW("debugging"), SP, W("these"), SP, W("kinds"), SP, W("of"), SP, W("issues"), SP, W("can"),
        SP, W("be"), SP, W("tricky"), DOT>>,
     thanks_sharing_with |->
        <<CapW("thanks"), SP, W("for"), SP, W("sharing"), SP, W("your"), SP, W("experience"), SP,
        W("with"), SP>>,
     thanks_sharing |->
        <<CapW("thanks"), SP, W("for"), SP, W("sharing"), SP, W("your"), SP, W("experience"), BANG>>,
     insights |->
        <<CapW("your"), SP, W("insights"), SP, W("will"), SP, W("definitely"), SP, W("help"), SP,
        W("others"), SP, W("in"), SP, W("the"), SP, W("community"), DOT>>,
     comparison_between |->
        <<CapW("the"), SP, W("comparison"), SP, W("between"), SP>>,
     and |->
        <<SP, W("and"), SP>>,
     really_valuable |->
        <<SP, W("is"), SP, W("really"), SP, W("valuable"), DOT>>,
     your_analysis_of |->
        <<CapW("your"), SP, W("analysis"), SP, W("of"), SP>>,
     raises_good_points |->
        <<SP, W("raises"), SP, W("good"), SP, W("points"), DOT>>,
     comparison_perspective |->
        <<CapW("this"), SP, W("comparison"), SP, W("provides"), SP, W("useful"), SP, W("perspective"),
        DOT>>,
     tradeoffs |->
        <<CapW("understanding"), SP, W("the"), SP, W("tradeoffs"), SP, W("is"), SP, W("crucial"), SP,
        W("for"), SP, W("making"), SP, W("the"), SP, W("right"), SP, W("choice"), DOT>>,
     great_question_about |->
        <<CapW("great"), SP, W("question"), SP, W("about"), SP>>,
     great_question |->
        <<CapW("that's"), SP, W("a"), SP, W("great"), SP, W("question"), DOT>>,
     many_developers |->
        <<CapW("many"), SP, W("developers"), SP, W("have"), SP, W("wondered"), SP, W("about"), SP,
        W("this"), SP, W("same"), SP, W("issue"), DOT>>,
     brings_up |->
        <<SP, W("brings"), SP, W("up"), SP, W("some"), SP, W("important"), SP, W("considerations"),
        DOT>>,
     points_you_raise |->
        <<CapW("the"), SP, W("points"), SP, W("you"), SP, W("raise"), SP, W("about"), SP>>,
     are_well_thought_out |->
        <<SP, W("are"), SP, W("well"), SP, W("thought"), SP, W("out"), DOT>>,
     thanks_posting |->
        <<CapW("thanks"), SP, W("for"), SP, W("posting"), SP, W("about"), SP>>,
     thoughtful |->
        <<CapW("this"), SP, W("is"), SP, W("a"), SP, W("thoughtful"), SP, W("contribution"), SP,
        W("to"), SP, W("the"), SP, W("discussion"), DOT>>,
     profiling |->
        <<CapW("performance"), SP, W("optimization"), SP, W("often"), SP, W("requires"), SP,
        W("profiling"), SP, W("to"), SP, W("identify"), SP, W("the"), SP, W("actual"), SP,
        W("bottlenecks"), DOT>>,
     scaling |->
        <<CapW("scaling"), SP, W("considerations"), SP, W("should"), SP, W("definitely"), SP, W("be"),
        SP, W("part"), SP, W("of"), SP, W("the"), SP, W("architecture"), SP, W("from"), SP, W("day"),
        SP, W("one"), DOT>>,
     security |->
        <<CapW("security"), SP, W("is"), SP, W("definitely"), SP, W("something"), SP, W("worth"), SP,
        W("investing"), SP, W("time"), SP, W("in"), SP, W("upfront"), DOT>>,
     one_tool |->
        <<CapW("one"), SP, W("tool"), SP, W("that"), SP, W("might"), SP, W("help"), SP, W("here"),
        Tok(":", 1), SP>>,
     worth_considering |->
        <<CapW("worth"), SP, W("considering"), Tok(":", 1), SP>>,
     you_might_find |->
        <<CapW("you"), SP, W("might"), SP, W("find"), SP, W("this"), SP, W("useful"), Tok(":", 1), SP>>,
     evolves |->
        <<CapW("looking"), SP, W("forward"), SP, W("to"), SP, W("seeing"), SP, W("how"), SP, W("this"),
        SP, W("evolves"), DOT>>,
     hope_this_helps |->
        <<CapW("hope"), SP, W("this"), SP, W("helps"), SP, W("with"), SP, W("your"), SP, W("project"),
        BANG>>]

\* key_topics[:2] joined by ', ', or 'this topic'
TitleTopics(post_title) ==
    LET key_topics == FilterTerms(Split(post_title), 3, TitleFillerWords)
    IN IF key_topics = <<>> THEN TitleOnlyText.this_topic
       ELSE JoinComma(SubSeq(key_topics, 1, IF Len(key_topics) < 2 THEN Len(key_topics) ELSE 2))

\* build_title_only_comment (lines 376-393)
build_title_only_comment(post_title, intent) ==
    IF intent = "help_request"
    THEN TitleOnlyText.see_youre_asking \o TitleTopics(post_title) \o TitleOnlyText.hope_responses
    ELSE IF intent = "comparison"
    THEN TitleOnlyText.great_question \o TitleTopics(post_title) \o TitleOnlyText.looking_forward
    ELSE IF intent = "share_experience"
    THEN TitleOnlyText.thanks_experience \o TitleTopics(post_title) \o <<BANG>>
    ELSE TitleOnlyText.interesting_post \o TitleTopics(post_title) \o TitleOnlyText.thanks_starting

\* the tokens at which re.split(r'[.!?]+', text) cuts
Cuts(t) == IsPunct(t) \/ t.w = "..."

\* _count_sentences of prompt_builder.py (lines 65-68): the pieces of
\* re.split(r'[.!?]+', text.strip()) that hold a non-blank character, counted
\* at the token each of them starts with; the dot inside a link starts one more
CountSentences(text) ==
    Cardinality({i \in 1..Len(text) :
                    /\ ~IsSpace(text[i]) /\ ~Cuts(text[i])
                    /\ \A j \in 1..(i - 1) :
                           (~IsSpace(text[j]) /\ \A k \in (j + 1)..(i - 1) : IsSpace(text[k]))
                               => Cuts(text[j])})
    + Cardinality({i \in 1..Len(text) : IsLink(text[i])})

RECURSIVE SumSentences(_)
\* sum(_count_sentences(p) for p in parts)
SumSentences(parts) ==
    IF parts = <<>> THEN 0 ELSE CountSentences(Head(parts)) + SumSentences(Tail(parts))

\* _ensure_minimum_length (lines 92-130)
_ensure_minimum_length(parts, platform, post_content, post_title) ==
    LET min_sentences == IF platform \in DOMAIN PLATFORM_MIN_SENTENCES
                         THEN PLATFORM_MIN_SENTENCES[platform] ELSE 2
        current_count == SumSentences(parts)
        meaningful_words == MeaningfulWords(post_content)
        first == IF AnyIn(post_content, {"implement", "build"}, {}) THEN <<MinimumText.implementation>>
                 ELSE IF AnyIn(post_content, {"performance", "speed"}, {})
                 THEN <<MinimumText.performance>>
                 ELSE IF AnyIn(post_content, {"scale", "scaling"}, {}) THEN <<MinimumText.scalability>>
                 ELSE IF meaningful_words # <<>>
                 THEN <<MinimumText.your_approach \o meaningful_words[1]
                            \o MinimumText.well_thought_out>>
                 ELSE <<>>
        second == IF current_count + Len(first) < min_sentences
                  THEN (IF platform = "github" THEN <<MinimumText.github>>
                        ELSE IF platform = "reddit" THEN <<MinimumText.reddit>>
                        ELSE <<MinimumText.other>>)
                  ELSE <<>>
    IN IF current_count >= min_sentences THEN parts ELSE parts \o first \o second

\* lines 177-222: the sentences that acknowledge the post
Acknowledgement(post_title, post_content, intent) ==
    LET meaningful_words == MeaningfulWords(post_content)
        some == meaningful_words # <<>>
        t == LightweightText
    IN IF intent = "help_request"
       THEN <<IF some THEN t.understand_with \o meaningful_words[1] \o <<DOT>>
                      ELSE t.understand_here>>
            \o (IF AnyIn(post_content, {"error", "bug"}, {}) THEN <<t.debugging_tricky>> ELSE <<>>)
       ELSE IF intent = "share_experience"
       THEN <<IF some THEN t.thanks_sharing_with \o meaningful_words[1] \o <<DOT>>
                      ELSE t.thanks_sharing>>
            \o (IF AnyIn(post_content, {"learn", "found"}, {}) THEN <<t.insights>> ELSE <<>>)
       ELSE IF intent = "comparison"
       THEN <<IF Len(meaningful_words) >= 2
              THEN t.comparison_between \o meaningful_words[1] \o t.and \o meaningful_words[2]
                       \o t.really_valuable
              ELSE IF some THEN t.your_analysis_of \o meaningful_words[1] \o t.raises_good_points
              ELSE t.comparison_perspective>>
            \o <<t.tradeoffs>>
       ELSE IF intent = "ask_experience"
       THEN <<IF some THEN t.great_question_about \o meaningful_words[1] \o <<DOT>>
                      ELSE t.great_question>>
            \o <<t.many_developers>>
       ELSE IF post_title # <<>> /\ some
       THEN <<t.your_analysis_of
                  \o (IF Split(post_title) # <<>> THEN Split(post_title)[1] ELSE meaningful_words[1])
                  \o t.brings_up>>
       ELSE IF some THEN <<t.points_you_raise \o meaningful_words[1] \o t.are_well_thought_out>>
       ELSE IF post_title # <<>> THEN <<t.thanks_posting \o Take(post_title, 50) \o <<DOT>>>>
       ELSE <<t.thoughtful>>

\* lines 225-230: the insight
Insight(post_content) ==
    IF AnyIn(post_content, {"performance", "slow"}, {}) THEN <<LightweightText.profiling>>
    ELSE IF AnyIn(post_content, {"scale"}, {}) THEN <<LightweightText.scaling>>
    ELSE IF AnyIn(post_content, {"security"}, {}) THEN <<LightweightText.security>>
    ELSE <<>>

\* lines 233-248: the recommendation, unless the post names the product or
\* the platform is twitter
Recommendation(post_title, post_content, platform, intent) ==
    IF ~_detect_kilocode_mention(post_title \o <<SP>> \o post_content) /\ platform # "twitter"
    THEN <<(IF intent = "help_request" THEN LightweightText.one_tool
            ELSE IF intent = "comparison" THEN LightweightText.worth_considering
            ELSE LightweightText.you_might_find)
           \o _get_kilocode_injection(post_content, post_title) \o <<DOT>>>>
    ELSE <<>>

\* lines 254-257: the closing sentence
Closing(parts, platform) ==
    IF platform = "github" /\ Len(parts) < 5 THEN <<LightweightText.evolves>>
    ELSE IF platform = "reddit" /\ Len(parts) < 4 THEN <<LightweightText.hope_this_helps>>
    ELSE <<>>

\* final.startswith(prefix), for a prefix of two words
StartsWith(final, first, second) ==
    /\ Len(final) >= 3
    /\ final[1] = CapW(first)
    /\ final[2] = SP
    /\ final[3].w = second /\ ~final[3].cap /\ final[3].n >= Len(second)
    /\ Subs(final[3].w) = {second}

\* lines 266-269: the opening of a repeated comment is changed
Varied(final) ==
    IF StartsWith(final, "thanks", "for")
    THEN <<CapW("appreciate")>> \o SubSeq(final, 4, Len(final))
    ELSE IF StartsWith(final, "i", "understand")
    THEN <<CapW("i"), SP, W("see")>> \o SubSeq(final, 4, Len(final))
    ELSE final

\* build_lightweight_comment (lines 133-275): the comment and the
\* recent-comment buffer afterwards; parts, final and the result of
\* _check_repetition are each bound once, as the assignments of lines 250,
\* 260 and 263 do
build_lightweight_comment(recent, post_title, post_content, platform) ==
    IF post_title = <<>> /\ post_content = <<>>
    THEN [comment |-> LightweightText.thanks_starting, recent |-> recent]
    ELSE IF post_content = <<>>
    THEN [comment |-> build_title_only_comment(post_title, "general"), recent |-> recent]
    ELSE LET intent == detect_intent(post_content)
             built == Acknowledgement(post_title, post_content, intent) \o Insight(post_content)
                          \o Recommendation(post_title, post_content, platform, intent)
             all_parts == {_ensure_minimum_length(built, platform, post_content, post_title)}
             finals == {Strip(JoinSp(parts \o Closing(parts, platform))) : parts \in all_parts}
         IN CHOOSE r \in {[comment |-> IF checked.unique THEN final ELSE Varied(final),
                           recent |-> checked.recent] :
                              <<final, checked>> \in {<<f, _check_repetition(recent, f)>> :
                                                         f \in finals}} : TRUE

----------------------------------------------------------------------------
(* build_lightweight_comment called several times for one post.            *)

LightweightPlatforms == {"reddit", "github", "twitter", "hn"}

LightweightTitles ==
    {<<>>, <<CapW("kilocode")>>, <<CapW("debugging"), SP, W("tips")>>, Ws(<<"a", "b">>)}

LightweightContents ==
    {<<>>, <<SP>>, Ws(<<"hi">>), Ws(<<"kilocode">>),
     Ws(<<"i", "need", "help", "with", "an", "error", "in", "the", "parser">>),
     Ws(<<"compare", "redis", "versus", "memcached">>),
     Ws(<<"has", "anyone", "tried", "kilocode">>),
     Ws(<<"i", "have", "been", "trying", "kilocode">>),
     Ws(<<"thanks", "kilocode">>),
     Ws(<<"security", "is", "slow">>),
     <<W("node"), DOT, W("js"), SP, W("build")>>,
     Ws(<<"we", "scale">>),
     Ws(<<"help">>)}

InitLightweight ==
    /\ pc = "build_lightweight"
    /\ caller = "lightweight"
    /\ req = None
    /\ fetched = None
    /\ post = None
    /\ api_key = TRUE
    /\ route = "none"
    /\ \E platform \in LightweightPlatforms, post_title \in LightweightTitles,
          post_content \in LightweightContents :
           frame = [platform |-> platform, title |-> post_title, content |-> post_content,
                    _recent_comment_hashes |-> <<>>]
    /\ eng = NoEng
    /\ last = NoCall
    /\ calls = NoCalls
    /\ ret = [kind |-> "built", log |-> <<>>]
    /\ gc = None
    /\ response = None

\* one call of build_lightweight_comment; the log keeps the comments
BuildLightweight ==
    /\ pc = "build_lightweight"
    /\ Len(ret.log) < MaxChecks
    /\ LET r == build_lightweight_comment(frame._recent_comment_hashes, frame.title,
                                          frame.content, frame.platform)
       IN /\ frame' = [frame EXCEPT !._recent_comment_hashes = r.recent]
          /\ ret' = [ret EXCEPT !.log = Append(@, r.comment)]
    /\ UNCHANGED <<pc, caller, req, fetched, post, api_key, route, eng, last, calls, gc, response>>

SpecLightweight == InitLightweight /\ [][BuildLightweight]_vars

----------------------------------------------------------------------------
(* Properties of the lightweight builder (SpecLightweight).                *)

ConfiguredPlatforms == {"reddit", "github", "twitter"}

\* C35: for every platform with a configured minimum (reddit 3, github 3,
\* twitter 1) and every title and content, the comment build_lightweight_comment
\* returns has at least PLATFORM_MIN_SENTENCES[platform] sentences
C35_MeetsPlatformMinimum ==
    \A i \in 1..Len(ret.log) :
        frame.platform \in ConfiguredPlatforms =>
            CountSentences(ret.log[i]) >= PLATFORM_MIN_SENTENCES[frame.platform]

----------------------------------------------------------------------------
(* ml/embeddings.py: embed_texts, one call against a cache that earlier    *)
(* calls have filled.                                                      *)

MaxTexts == 3
MAX_TEXT_LENGTH == 1500
EMBED_MAX_RETRIES == 3

sha256(text) == [sha256 |-> text]

\* _get_cache_key
_get_cache_key(text) == sha256(text)

\* text.rfind(' '): the offset of the last blank, -1 without one
LastSpace(s) ==
    LET at == {i \in 1..Len(s) : IsSpace(s[i])}
    IN IF at = {} THEN -1
       ELSE LET last_at == CHOOSE i \in at : \A j \in at : j <= i
            IN CharLen(SubSeq(s, 1, last_at - 1))

\* _truncate_text (lines 55-67): the first max_length characters, cut back
\* to the last blank when that keeps more than 80% of them
_truncate_text(text, max_length) ==
    IF CharLen(text) <= max_length THEN text
    ELSE LET truncated == Take(text, max_length)
             last_space == LastSpace(truncated)
         IN IF 10 * last_space > 8 * max_length THEN Take(truncated, last_space) ELSE truncated

\* the texts handed to embed_texts: a short one, two long ones that read the
\* same up to the cut, and a long one that is cut inside a word
EmbedTexts ==
    { Ws(<<"a">>),
      <<Tok("lorem", 1300), SP, Tok("ipsum", 400)>>,
      <<Tok("lorem", 1300), SP, Tok("dolor", 300)>>,
      <<Tok("lorem", 1000), SP, Tok("ipsum", 700)>> }

EmbedBatchSizes == {1, 2}

\* the vector genai.embed_content returns for a text: which text it embeds
\* and its length (not a unit vector; one is the zero vector)
BackendEmbedding(text) == [of |-> text, norm |-> IF text = Ws(<<"a">>) THEN 0 ELSE 2]

\* lines 181-184: every row divided by its norm, a zero row left alone
Normalized(rows) == [i \in 1..Len(rows) |-> [rows[i] EXCEPT !.norm = IF @ = 0 THEN 0 ELSE 1]]

\* caches earlier calls can have left: some of the truncated texts, each with
\* the vector the backend gave for it
EmbedKeys(texts) == {_get_cache_key(_truncate_text(t, MAX_TEXT_LENGTH)) : t \in texts}
EmbedCaches ==
    {[k \in keys |-> BackendEmbedding(k.sha256)] :
        keys \in {{}, EmbedKeys({Ws(<<"a">>)}),
                  EmbedKeys({<<Tok("lorem", 1300), SP, Tok("dolor", 300)>>}),
                  EmbedKeys(EmbedTexts)}}

\* lines 102-115: the cached vectors, the texts to embed and their positions
\* (counted from 1)
CacheIndices(texts, cache, use_cache) ==
    {i \in 1..Len(texts) : ~(use_cache /\ _get_cache_key(texts[i]) \in DOMAIN cache)}

\* the elements of s at the positions in at, in order
RECURSIVE Pick(_, _, _)
Pick(s, at, i) ==
    IF i > Len(s) THEN <<>>
    ELSE (IF i \in at THEN <<s[i]>> ELSE <<>>) \o Pick(s, at, i + 1)

\* faulty variant of Merged: the cached vectors first, the new ones behind
MergedCachedFirst(n, cache_indices, embeddings_list, new_embeddings) ==
    embeddings_list \o new_embeddings

\* lines 159-173: cached and new vectors put back in the order of the texts
Merged(n, cache_indices, embeddings_list, new_embeddings) ==
    [i \in 1..n |->
        IF i \notin cache_indices
        THEN embeddings_list[Cardinality({k \in 1..i : k \notin cache_indices})]
        ELSE new_embeddings[Cardinality({k \in 1..i : k \in cache_indices})]]

InitEmbed ==
    /\ pc = "embed_texts"
    /\ caller = "embed"
    /\ req = None
    /\ fetched = None
    /\ post = None
    /\ api_key \in BOOLEAN
    /\ route = "none"
    /\ \E n \in 0..MaxTexts :
       \E texts \in [1..n -> EmbedTexts], batch_size \in EmbedBatchSizes,
          normalize \in BOOLEAN, use_cache \in BOOLEAN, cache \in EmbedCaches :
           frame = [texts |-> texts, batch_size |-> batch_size, normalize |-> normalize,
                    use_cache |-> use_cache, _embedding_cache |-> cache, before |-> cache,
                    truncated |-> <<>>, embeddings_list |-> <<>>, texts_to_embed |-> <<>>,
                    cache_indices |-> {}, new_embeddings |-> <<>>, i |-> 0, attempt |-> 0,
                    sent |-> <<>>]
    /\ eng = NoEng
    /\ last = NoCall
    /\ calls = NoCalls
    /\ ret = None
    /\ gc = None
    /\ response = None

EmbedStep(position, locals, result) ==
    /\ pc' = position
    /\ frame' = locals
    /\ ret' = result
    /\ UNCHANGED <<caller, req, fetched, post, api_key, route, eng, last, calls, gc, response>>

\* lines 90-115: no texts, no key, or the look in the cache
EmbedLookup ==
    /\ pc = "embed_texts"
    /\ IF frame.texts = <<>> THEN EmbedStep("embed_done", frame, [kind |-> "embeddings", rows |-> <<>>])
       ELSE IF ~api_key THEN EmbedStep("embed_raised", frame, [kind |-> "raised", error |-> "ValueError"])
       ELSE LET texts == [i \in 1..Len(frame.texts) |->
                             _truncate_text(frame.texts[i], MAX_TEXT_LENGTH)]
                cache_indices == CacheIndices(texts, frame._embedding_cache, frame.use_cache)
                hits == (1..Len(texts)) \ cache_indices
            IN EmbedStep("embed_batch",
                         [frame EXCEPT
                             !.truncated = texts,
                             !.cache_indices = cache_indices,
                             !.texts_to_embed = Pick(texts, cache_indices, 1),
                             !.embeddings_list =
                                 Pick([i \in 1..Len(texts) |->
                                          IF i \in hits
                                          THEN frame._embedding_cache[_get_cache_key(texts[i])]
                                          ELSE None],
                                      hits, 1)],
                         ret)

\* texts_to_embed[i:i + batch_size]
Batch == SubSeq(frame.texts_to_embed, frame.i + 1,
                IF frame.i + frame.batch_size < Len(frame.texts_to_embed)
                THEN frame.i + frame.batch_size ELSE Len(frame.texts_to_embed))

\* lines 126-147: the backend answers for a batch; the vectors are kept and
\* cached and the next batch is up
EmbedBatchSucceeds ==
    /\ pc = "embed_batch"
    /\ frame.i < Len(frame.texts_to_embed)
    /\ frame.attempt < EMBED_MAX_RETRIES
    /\ LET batch == Batch
           batch_embeddings == [k \in 1..Len(batch) |-> BackendEmbedding(batch[k])]
           keys == {_get_cache_key(batch[k]) : k \in 1..Len(batch)}
       IN EmbedStep("embed_batch",
                    [frame EXCEPT
                        !.sent = Append(@, batch),
                        !.new_embeddings = @ \o batch_embeddings,
                        !._embedding_cache =
                            IF frame.use_cache
                            THEN [k \in DOMAIN @ \cup keys |->
                                     IF k \in keys THEN BackendEmbedding(k.sha256) ELSE @[k]]
                            ELSE @,
                        !.i = @ + frame.batch_size,
                        !.attempt = 0],
                    ret)

\* lines 149-157: the backend raises; the batch is tried again, and the
\* error of the last attempt leaves embed_texts
EmbedBatchFails ==
    /\ pc = "embed_batch"
    /\ frame.i < Len(frame.texts_to_embed)
    /\ frame.attempt < EMBED_MAX_RETRIES
    /\ LET locals == [frame EXCEPT !.sent = Append(@, Batch)]
       IN IF frame.attempt = EMBED_MAX_RETRIES - 1
          THEN EmbedStep("embed_raised", locals, [kind |-> "raised", error |-> "BackendError"])
          ELSE EmbedStep("embed_batch", [locals EXCEPT !.attempt = @ + 1], ret)

\* lines 159-188: the merge, the conversion and the normalisation
EmbedReturn ==
    /\ pc = "embed_batch"
    /\ frame.i >= Len(frame.texts_to_embed)
    /\ LET embeddings_list ==
               IF frame.texts_to_embed # <<>>
               THEN Merged(Len(frame.truncated), frame.cache_indices, frame.embeddings_list,
                           frame.new_embeddings)
               ELSE frame.embeddings_list
       IN EmbedStep("embed_done", frame,
                    [kind |-> "embeddings",
                     rows |-> IF frame.normalize THEN Normalized(embeddings_list)
                              ELSE embeddings_list])

EmbedNext == EmbedLookup \/ EmbedBatchSucceeds \/ EmbedBatchFails \/ EmbedReturn

SpecEmbed == InitEmbed /\ [][EmbedNext]_vars

----------------------------------------------------------------------------
(* Properties of embed_texts (SpecEmbed).                                  *)

Embedded == pc = "embed_done" /\ ret.kind = "embeddings"

\* the embedding of a text: the vector of the backend for the text as cut to
\* MAX_TEXT_LENGTH, normalised on request
EmbeddingOf(text, normalize) ==
    LET e == BackendEmbedding(_truncate_text(text, MAX_TEXT_LENGTH))
    IN IF normalize /\ e.norm # 0 THEN [e EXCEPT !.norm = 1] ELSE e

\* a text of the call is in some batch that was sent to the backend
Sent(text) ==
    \E b \in 1..Len(frame.sent) : \E k \in 1..Len(frame.sent[b]) :
        frame.sent[b][k] = _truncate_text(text, MAX_TEXT_LENGTH)

\* the embedding of the text was in the cache when the call began
CachedBefore(text) == _get_cache_key(_truncate_text(text, MAX_TEXT_LENGTH)) \in DOMAIN frame.before

\* C36: embed_texts returns exactly one embedding per input text in input
\* order, for every mix of cache hits and misses, repeated texts and batch
\* sizes: row i is the embedding of texts[i], and a text whose embedding is
\* already cached is not sent to the backend
C36_OneRowPerTextInOrder ==
    /\ Embedded =>
          /\ Len(ret.rows) = Len(frame.texts)
          /\ \A i \in 1..Len(frame.texts) :
                 ret.rows[i] = EmbeddingOf(frame.texts[i], frame.normalize)
    /\ (caller = "embed" /\ frame.use_cache) =>
          \A i \in 1..Len(frame.texts) : CachedBefore(frame.texts[i]) => ~Sent(frame.texts[i])

\* a hit between two misses, the missed text twice, in batches of one
C36_Witness ==
    /\ Embedded
    /\ Len(frame.texts) = 3
    /\ frame.texts[1] = frame.texts[3]
    /\ frame.texts[1] # frame.texts[2]
    /\ ~CachedBefore(frame.texts[1]) /\ CachedBefore(frame.texts[2])
    /\ frame.use_cache
    /\ frame.batch_size = 1
    /\ Len(frame.sent) = 2

----------------------------------------------------------------------------
(* _check_repetition called by two requests at the same time. The          *)
(* interpreter runs one statement of one thread at a time and may switch   *)
(* threads between any two statements; the function takes no lock.         *)

Checkers == {1, 2}

InitRepetitionRace ==
    /\ pc = "check_repetition_race"
    /\ caller = "repetition_race"
    /\ req = None
    /\ fetched = None
    /\ post = None
    /\ api_key = TRUE
    /\ route = "none"
    /\ \E recent \in RecentBuffers, comments \in [Checkers -> RepetitionDrafts] :
           frame = [_recent_comment_hashes |-> recent,
                    checkers |-> [t \in Checkers |->
                                     [pc |-> "called", comment |-> comments[t],
                                      comment_hash |-> None, unique |-> None]]]
    /\ eng = NoEng
    /\ last = NoCall
    /\ calls = NoCalls
    /\ ret = None
    /\ gc = None
    /\ response = None

Checker(t) == frame.checkers[t]

CheckerStep(t, checker, recent) ==
    /\ pc = "check_repetition_race"
    /\ frame' = [frame EXCEPT !.checkers[t] = checker, !._recent_comment_hashes = recent]
    /\ UNCHANGED <<pc, caller, req, fetched, post, api_key, route, eng, last, calls, ret, gc,
                   response>>

\* line 78: the digest of the opening of the comment
HashOpening(t) ==
    /\ Checker(t).pc = "called"
    /\ CheckerStep(t, [Checker(t) EXCEPT
                          !.pc = "test",
                          !.comment_hash = md5(Lower(Take(Checker(t).comment, OPENING_LEN)))],
                   frame._recent_comment_hashes)

\* lines 81-83: the digest is looked up; a digest in the buffer ends the call
TestMembership(t) ==
    /\ Checker(t).pc = "test"
    /\ IF \E i \in 1..Len(frame._recent_comment_hashes) :
              frame._recent_comment_hashes[i] = Checker(t).comment_hash
       THEN CheckerStep(t, [Checker(t) EXCEPT !.pc = "returned", !.unique = FALSE],
                        frame._recent_comment_hashes)
       ELSE CheckerStep(t, [Checker(t) EXCEPT !.pc = "append"], frame._recent_comment_hashes)

\* line 85: the digest is appended
AppendHash(t) ==
    /\ Checker(t).pc = "append"
    /\ CheckerStep(t, [Checker(t) EXCEPT !.pc = "trim"],
                   Append(frame._recent_comment_hashes, Checker(t).comment_hash))

\* lines 86-89: an overfull buffer drops its oldest digest; the call answers
\* True
TrimAndReturn(t) ==
    /\ Checker(t).pc = "trim"
    /\ CheckerStep(t, [Checker(t) EXCEPT !.pc = "returned", !.unique = TRUE],
                   IF Len(frame._recent_comment_hashes) > _MAX_RECENT_CACHE
                   THEN Tail(frame._recent_comment_hashes)
                   ELSE frame._recent_comment_hashes)

RepetitionRaceNext ==
    \E t \in Checkers :
        \/ HashOpening(t)
        \/ TestMembership(t)
        \/ AppendHash(t)
        \/ TrimAndReturn(t)

SpecRepetitionRace == InitRepetitionRace /\ [][RepetitionRaceNext]_vars

----------------------------------------------------------------------------
(* Properties of the recent-comment buffer under concurrent requests       *)
(* (SpecRepetitionRace).                                                   *)

\* C37: when two requests call _check_repetition at the same time with the
\* same draft, at most one of them is told the draft is unique, and the
\* buffer never contains the same hash twice
C37_ConcurrentChecksAtMostOneUnique ==
    /\ (/\ Checker(1).comment = Checker(2).comment
        /\ Checker(1).pc = "returned" /\ Checker(2).pc = "returned")
           => ~(Checker(1).unique /\ Checker(2).unique)
    /\ \A i, j \in 1..Len(frame._recent_comment_hashes) :
           i # j => frame._recent_comment_hashes[i] # frame._recent_comment_hashes[j]

----------------------------------------------------------------------------
(* Further properties of the recent-comment buffer (SpecRepetition).       *)

\* the digest _check_repetition takes of a draft
DraftHash(comment) == md5(Lower(Take(comment, OPENING_LEN)))

Holding(recent, h) == \E i \in 1..Len(recent) : recent[i] = h

\* how many digests were accepted after h, for a buffer that holds h
AcceptedAfter(recent, h) == Len(recent) - (CHOOSE i \in 1..Len(recent) : recent[i] = h)

\* the calls between the j-th and the k-th that returned True
AcceptedBetween(j, k) == Cardinality({m \in (j + 1)..(k - 1) : ret.log[m].unique})

\* the last call: its draft, its answer, the buffer before and after it
LastCheck == ret.log[Len(ret.log)]

\* C38: after any sequence of sequential _check_repetition calls the buffer
\* holds at most 50 hashes, eviction is first-in-first-out (the oldest accepted
\* hash is dropped when a 51st is accepted), a call that returns False leaves
\* the buffer unchanged, and a draft is reported unique again once 50 other
\* distinct drafts have been accepted after it (only other drafts were checked
\* between its two calls)
C38_BoundedFifoBuffer ==
    ret.log # <<>> =>
        /\ Len(frame._recent_comment_hashes) <= _MAX_RECENT_CACHE
        /\ ~LastCheck.unique => frame._recent_comment_hashes = frame.before
        /\ LastCheck.unique =>
              frame._recent_comment_hashes =
                  (IF Len(frame.before) = _MAX_RECENT_CACHE THEN Tail(frame.before)
                   ELSE frame.before) \o <<DraftHash(LastCheck.comment)>>
        /\ \A j, k \in 1..Len(ret.log) :
              (/\ j < k
               /\ DraftHash(ret.log[j].comment) = DraftHash(ret.log[k].comment)
               /\ \A m \in (j + 1)..(k - 1) :
                      DraftHash(ret.log[m].comment) # DraftHash(ret.log[j].comment)
               /\ AcceptedAfter(ret.log[j].recent, DraftHash(ret.log[j].comment))
                      + AcceptedBetween(j, k) >= _MAX_RECENT_CACHE)
                  => ret.log[k].unique

\* a draft that 49 others followed is refused, a 50th other draft is
\* accepted, and the draft is unique again
C38_Witness ==
    /\ Len(ret.log) = 3
    /\ DraftHash(ret.log[1].comment) = DraftHash(ret.log[3].comment)
    /\ ~ret.log[1].unique
    /\ AcceptedAfter(ret.log[1].recent, DraftHash(ret.log[1].comment)) = _MAX_RECENT_CACHE - 1
    /\ ret.log[2].unique
    /\ ret.log[3].unique
    /\ Len(frame._recent_comment_hashes) = _MAX_RECENT_CACHE

----------------------------------------------------------------------------
(* Properties of the long-form strategy (Spec).                            *)

\* the long-form strategy has called generate_comment_with_gemini
LongFormCalledEngine ==
    /\ caller \in {"endpoint", "direct"}
    /\ route = "long_form"
    /\ frame # None
    /\ frame.strategy = "long_form"

\* C39: in the long-form path, whenever the post content is non-empty, the
\* content handed to generate_comment_with_gemini is non-empty too: embed_chunked
\* returning no chunks does not make the request be built from the title alone
C39_LongFormContentNotEmpty ==
    (LongFormCalledEngine /\ content # <<>>) => eng.post_content # <<>>

----------------------------------------------------------------------------
(* Properties of the comments the endpoint returns (Spec).                 *)

\* the endpoint answered with the comment generate_comment returned, or with
\* its safe fallback
Answered200 ==
    /\ caller = "endpoint"
    /\ pc = "done"
    /\ response # None
    /\ response.status_code = 200
    /\ req.source # "docs"

HoldsForbiddenPhrase(comment) == \E ph \in FORBIDDEN_PHRASES : Contains(comment, ph)

\* the comment of the answer is the draft the validator accepted
AnsweredWithAcceptedDraft ==
    /\ Answered200
    /\ gc.kind = "returned"
    /\ ret.kind = "accepted"
    /\ route \in {"reddit", "lightweight", "long_form"}

====
